---------------------------- MODULE Spec2Model ----------------------------
(***************************************************************************)
(* Model of the recommendation pipeline of the client clearance system:    *)
(* TextAnalyzer (src/src/models/text_analyzer.py) and RecommendationEngine *)
(* (src/src/engine/recommendation_engine.py).                              *)
(*                                                                         *)
(* Representation.                                                         *)
(*   - A text is a sequence of one-character strings, so that Python's     *)
(*     `keyword in text` is a real substring search.                       *)
(*   - Confidences and scores are integers in hundredths (0.95 = 95).      *)
(*   - Money is kept in thousandths of a dollar until it is reported;      *)
(*     reported amounts (round(x, 2)) are integers in cents.               *)
(*   - Weeks are kept in hundredths until reported; reported durations     *)
(*     (round(x, 1)) are integers in tenths of a week.                     *)
(*   - A Python dict with optional keys is a record with a `keys` field    *)
(*     naming the keys that are present; None is the record with           *)
(*     none = TRUE.                                                        *)
(***************************************************************************)
EXTENDS Integers, Sequences, FiniteSets, TLC

\* ------------------------------------------------------------------------
\* Lookup tables of TextAnalyzer.__init__ (keyword lists keep list order;
\* the *_keys sequences keep the dict insertion order).
\* ------------------------------------------------------------------------

business_keywords ==
  [
    retail |->
      <<
        <<"s","t","o","r","e">>,  \* store
        <<"s","h","o","p">>,  \* shop
        <<"r","e","t","a","i","l">>,  \* retail
        <<"e","c","o","m","m","e","r","c","e">>,  \* ecommerce
        <<"o","n","l","i","n","e"," ","s","t","o","r","e">>,  \* online store
        <<"m","a","r","k","e","t","p","l","a","c","e">>,  \* marketplace
        <<"s","e","l","l","i","n","g">>,  \* selling
        <<"p","r","o","d","u","c","t","s">>  \* products
      >>,
    restaurant |->
      <<
        <<"r","e","s","t","a","u","r","a","n","t">>,  \* restaurant
        <<"f","o","o","d">>,  \* food
        <<"d","e","l","i","v","e","r","y">>,  \* delivery
        <<"t","a","k","e","o","u","t">>,  \* takeout
        <<"d","i","n","i","n","g">>,  \* dining
        <<"c","a","f","e">>,  \* cafe
        <<"m","e","n","u">>,  \* menu
        <<"k","i","t","c","h","e","n">>  \* kitchen
      >>,
    healthcare |->
      <<
        <<"m","e","d","i","c","a","l">>,  \* medical
        <<"h","e","a","l","t","h","c","a","r","e">>,  \* healthcare
        <<"c","l","i","n","i","c">>,  \* clinic
        <<"h","o","s","p","i","t","a","l">>,  \* hospital
        <<"p","a","t","i","e","n","t">>,  \* patient
        <<"d","o","c","t","o","r">>,  \* doctor
        <<"h","e","a","l","t","h">>,  \* health
        <<"m","e","d","i","c","i","n","e">>  \* medicine
      >>,
    education |->
      <<
        <<"s","c","h","o","o","l">>,  \* school
        <<"e","d","u","c","a","t","i","o","n">>,  \* education
        <<"l","e","a","r","n","i","n","g">>,  \* learning
        <<"c","o","u","r","s","e">>,  \* course
        <<"t","r","a","i","n","i","n","g">>,  \* training
        <<"a","c","a","d","e","m","y">>,  \* academy
        <<"s","t","u","d","e","n","t">>,  \* student
        <<"t","e","a","c","h","i","n","g">>  \* teaching
      >>,
    logistics |->
      <<
        <<"l","o","g","i","s","t","i","c","s">>,  \* logistics
        <<"s","h","i","p","p","i","n","g">>,  \* shipping
        <<"d","e","l","i","v","e","r","y">>,  \* delivery
        <<"w","a","r","e","h","o","u","s","e">>,  \* warehouse
        <<"s","u","p","p","l","y"," ","c","h","a","i","n">>,  \* supply chain
        <<"t","r","a","n","s","p","o","r","t">>,  \* transport
        <<"f","r","e","i","g","h","t">>  \* freight
      >>,
    finance |->
      <<
        <<"b","a","n","k","i","n","g">>,  \* banking
        <<"f","i","n","a","n","c","e">>,  \* finance
        <<"i","n","v","e","s","t","m","e","n","t">>,  \* investment
        <<"a","c","c","o","u","n","t","i","n","g">>,  \* accounting
        <<"b","u","d","g","e","t">>,  \* budget
        <<"m","o","n","e","y">>,  \* money
        <<"f","i","n","a","n","c","i","a","l">>  \* financial
      >>,
    real_estate |->
      <<
        <<"r","e","a","l"," ","e","s","t","a","t","e">>,  \* real estate
        <<"p","r","o","p","e","r","t","y">>,  \* property
        <<"h","o","u","s","i","n","g">>,  \* housing
        <<"r","e","n","t","a","l">>,  \* rental
        <<"m","o","r","t","g","a","g","e">>,  \* mortgage
        <<"r","e","a","l","t","y">>,  \* realty
        <<"h","o","m","e">>  \* home
      >>,
    consulting |->
      <<
        <<"c","o","n","s","u","l","t","i","n","g">>,  \* consulting
        <<"c","o","n","s","u","l","t","a","n","t">>,  \* consultant
        <<"a","d","v","i","s","o","r","y">>,  \* advisory
        <<"p","r","o","f","e","s","s","i","o","n","a","l"," ","s","e","r","v","i","c","e","s">>,  \* professional services
        <<"b","u","s","i","n","e","s","s"," ","a","d","v","i","c","e">>  \* business advice
      >>
  ]

business_keywords_keys == <<"retail", "restaurant", "healthcare", "education", "logistics", "finance", "real_estate", "consulting">>

platform_indicators ==
  [
    mobile |->
      <<
        <<"m","o","b","i","l","e">>,  \* mobile
        <<"p","h","o","n","e">>,  \* phone
        <<"a","n","d","r","o","i","d">>,  \* android
        <<"i","o","s">>,  \* ios
        <<"s","m","a","r","t","p","h","o","n","e">>,  \* smartphone
        <<"t","a","b","l","e","t">>  \* tablet
      >>,
    web |->
      <<
        <<"w","e","b","s","i","t","e">>,  \* website
        <<"w","e","b">>,  \* web
        <<"o","n","l","i","n","e">>,  \* online
        <<"b","r","o","w","s","e","r">>,  \* browser
        <<"i","n","t","e","r","n","e","t">>,  \* internet
        <<"w","e","b"," ","a","p","p","l","i","c","a","t","i","o","n">>  \* web application
      >>,
    desktop |->
      <<
        <<"d","e","s","k","t","o","p">>,  \* desktop
        <<"c","o","m","p","u","t","e","r">>,  \* computer
        <<"p","c">>,  \* pc
        <<"s","o","f","t","w","a","r","e">>,  \* software
        <<"a","p","p","l","i","c","a","t","i","o","n">>,  \* application
        <<"p","r","o","g","r","a","m">>  \* program
      >>
  ]

platform_indicators_keys == <<"mobile", "web", "desktop">>

feature_keywords ==
  [
    inventory |->
      <<
        <<"i","n","v","e","n","t","o","r","y">>,  \* inventory
        <<"s","t","o","c","k">>,  \* stock
        <<"p","r","o","d","u","c","t","s">>,  \* products
        <<"i","t","e","m","s">>,  \* items
        <<"c","a","t","a","l","o","g">>  \* catalog
      >>,
    payment |->
      <<
        <<"p","a","y","m","e","n","t">>,  \* payment
        <<"b","i","l","l","i","n","g">>,  \* billing
        <<"c","h","e","c","k","o","u","t">>,  \* checkout
        <<"p","a","y">>,  \* pay
        <<"m","o","n","e","y">>,  \* money
        <<"t","r","a","n","s","a","c","t","i","o","n">>  \* transaction
      >>,
    tracking |->
      <<
        <<"t","r","a","c","k","i","n","g">>,  \* tracking
        <<"m","o","n","i","t","o","r","i","n","g">>,  \* monitoring
        <<"a","n","a","l","y","t","i","c","s">>,  \* analytics
        <<"r","e","p","o","r","t","s">>,  \* reports
        <<"d","a","s","h","b","o","a","r","d">>  \* dashboard
      >>,
    user_management |->
      <<
        <<"u","s","e","r","s">>,  \* users
        <<"a","c","c","o","u","n","t","s">>,  \* accounts
        <<"p","r","o","f","i","l","e","s">>,  \* profiles
        <<"r","e","g","i","s","t","r","a","t","i","o","n">>,  \* registration
        <<"l","o","g","i","n">>  \* login
      >>,
    communication |->
      <<
        <<"c","h","a","t">>,  \* chat
        <<"m","e","s","s","a","g","i","n","g">>,  \* messaging
        <<"e","m","a","i","l">>,  \* email
        <<"n","o","t","i","f","i","c","a","t","i","o","n","s">>,  \* notifications
        <<"a","l","e","r","t","s">>  \* alerts
      >>,
    scheduling |->
      <<
        <<"a","p","p","o","i","n","t","m","e","n","t","s">>,  \* appointments
        <<"b","o","o","k","i","n","g">>,  \* booking
        <<"c","a","l","e","n","d","a","r">>,  \* calendar
        <<"s","c","h","e","d","u","l","e">>,  \* schedule
        <<"r","e","s","e","r","v","a","t","i","o","n","s">>  \* reservations
      >>,
    reporting |->
      <<
        <<"r","e","p","o","r","t","s">>,  \* reports
        <<"a","n","a","l","y","t","i","c","s">>,  \* analytics
        <<"s","t","a","t","i","s","t","i","c","s">>,  \* statistics
        <<"d","a","t","a">>,  \* data
        <<"i","n","s","i","g","h","t","s">>  \* insights
      >>
  ]

feature_keywords_keys == <<"inventory", "payment", "tracking", "user_management", "communication", "scheduling", "reporting">>

major_notification_keywords ==
  <<
    <<"n","o","t","i","f","i","c","a","t","i","o","n">>,  \* notification
    <<"a","l","e","r","t">>,  \* alert
    <<"p","u","s","h">>,  \* push
    <<"r","e","a","l","-","t","i","m","e">>,  \* real-time
    <<"i","n","s","t","a","n","t">>,  \* instant
    <<"i","m","m","e","d","i","a","t","e">>,  \* immediate
    <<"u","r","g","e","n","t">>,  \* urgent
    <<"e","m","e","r","g","e","n","c","y">>,  \* emergency
    <<"c","r","i","t","i","c","a","l">>,  \* critical
    <<"i","m","p","o","r","t","a","n","t">>,  \* important
    <<"r","e","m","i","n","d","e","r">>,  \* reminder
    <<"p","i","n","g">>,  \* ping
    <<"m","e","s","s","a","g","e">>,  \* message
    <<"u","p","d","a","t","e">>,  \* update
    <<"s","t","a","t","u","s">>,  \* status
    <<"t","r","a","c","k","i","n","g">>,  \* tracking
    <<"m","o","n","i","t","o","r","i","n","g">>,  \* monitoring
    <<"l","i","v","e">>,  \* live
    <<"n","o","t","i","f","y">>,  \* notify
    <<"a","l","a","r","m">>,  \* alarm
    <<"w","a","r","n","i","n","g">>,  \* warning
    <<"a","n","n","o","u","n","c","e","m","e","n","t">>,  \* announcement
    <<"b","r","o","a","d","c","a","s","t">>  \* broadcast
  >>

minor_notification_keywords ==
  <<
    <<"e","m","a","i","l">>,  \* email
    <<"r","e","p","o","r","t">>,  \* report
    <<"s","u","m","m","a","r","y">>,  \* summary
    <<"d","a","i","l","y">>,  \* daily
    <<"w","e","e","k","l","y">>,  \* weekly
    <<"m","o","n","t","h","l","y">>,  \* monthly
    <<"n","e","w","s","l","e","t","t","e","r">>,  \* newsletter
    <<"u","p","d","a","t","e">>,  \* update
    <<"n","e","w","s">>,  \* news
    <<"i","n","f","o","r","m","a","t","i","o","n">>,  \* information
    <<"c","o","m","m","u","n","i","c","a","t","i","o","n">>  \* communication
  >>

\* "I need an online store to sell my products"
TextOnlineStore ==
  <<"I"," ","n","e","e","d"," ","a","n"," ","o","n","l","i","n","e"," ","s","t","o","r","e"," ","t","o"," ","s","e","l","l"," ","m","y"," ","p","r","o","d","u","c","t","s">>

\* "I want a mobile app for food delivery"
TextFoodDelivery ==
  <<"I"," ","w","a","n","t"," ","a"," ","m","o","b","i","l","e"," ","a","p","p"," ","f","o","r"," ","f","o","o","d"," ","d","e","l","i","v","e","r","y">>

\* "urgent real-time alert tracking"
TextUrgentAlert ==
  <<"u","r","g","e","n","t"," ","r","e","a","l","-","t","i","m","e"," ","a","l","e","r","t"," ","t","r","a","c","k","i","n","g">>

\* "I need something to help manage my business"
TextVague ==
  <<"I"," ","n","e","e","d"," ","s","o","m","e","t","h","i","n","g"," ","t","o"," ","h","e","l","p"," ","m","a","n","a","g","e"," ","m","y"," ","b","u","s","i","n","e","s","s">>

\* "I want a desktop app for project management"
TextDesktop ==
  <<"I"," ","w","a","n","t"," ","a"," ","d","e","s","k","t","o","p"," ","a","p","p"," ","f","o","r"," ","p","r","o","j","e","c","t"," ","m","a","n","a","g","e","m","e","n","t">>

\* "I need an online store"
TextStoreShort ==
  <<"I"," ","n","e","e","d"," ","a","n"," ","o","n","l","i","n","e"," ","s","t","o","r","e">>

\* "I want a food delivery app"
TextFoodApp ==
  <<"I"," ","w","a","n","t"," ","a"," ","f","o","o","d"," ","d","e","l","i","v","e","r","y"," ","a","p","p">>

\* "send a weekly email update"
TextWeeklyEmail ==
  <<"s","e","n","d"," ","a"," ","w","e","e","k","l","y"," ","e","m","a","i","l"," ","u","p","d","a","t","e">>

\* ""
TextEmpty ==
  <<>>

\* "we keep a list of all the products we have in the back room"
TextProducts ==
  <<"w","e"," ","k","e","e","p"," ","a"," ","l","i","s","t"," ","o","f"," ","a","l","l"," ","t","h","e"," ","p","r","o","d","u","c","t","s"," ","w","e"," ","h","a","v","e"," ","i","n"," ","t","h","e"," ","b","a","c","k"," ","r","o","o","m">>

\* "$1,000.50"
TextCents ==
  <<"$","1",",","0","0","0",".","5","0">>

\* "same day delivery"
TextDelivery ==
  <<"s","a","m","e"," ","d","a","y"," ","d","e","l","i","v","e","r","y">>

ToLower ==
  ("A" :> "a") @@ ("B" :> "b") @@ ("C" :> "c") @@ ("D" :> "d") @@ ("E" :> "e") @@ ("F" :> "f") @@ ("G" :> "g") @@ ("H" :> "h") @@ ("I" :> "i") @@ ("J" :> "j") @@ ("K" :> "k") @@ ("L" :> "l") @@ ("M" :> "m")
  @@ ("N" :> "n") @@ ("O" :> "o") @@ ("P" :> "p") @@ ("Q" :> "q") @@ ("R" :> "r") @@ ("S" :> "s") @@ ("T" :> "t") @@ ("U" :> "u") @@ ("V" :> "v") @@ ("W" :> "w") @@ ("X" :> "x") @@ ("Y" :> "y") @@ ("Z" :> "z")
budget_keywords ==
  <<
    <<"b","u","d","g","e","t">>,  \* budget
    <<"c","o","s","t">>,  \* cost
    <<"p","r","i","c","e">>,  \* price
    <<"a","f","f","o","r","d","a","b","l","e">>,  \* affordable
    <<"c","h","e","a","p">>,  \* cheap
    <<"e","x","p","e","n","s","i","v","e">>,  \* expensive
    <<"m","o","n","e","y">>  \* money
  >>

timeline_keywords ==
  <<
    <<"t","i","m","e","l","i","n","e">>,  \* timeline
    <<"d","e","a","d","l","i","n","e">>,  \* deadline
    <<"s","c","h","e","d","u","l","e">>,  \* schedule
    <<"t","i","m","e">>,  \* time
    <<"w","h","e","n">>,  \* when
    <<"d","u","r","a","t","i","o","n">>  \* duration
  >>

\* ------------------------------------------------------------------------
\* Text primitives
\* ------------------------------------------------------------------------

\* str.lower() on the characters that occur in the modelled texts
lower(text) ==
  [i \in 1..Len(text) |-> IF text[i] \in DOMAIN ToLower THEN ToLower[text[i]] ELSE text[i]]

\* Python's `keyword in text` on strings: substring search
Contains(keyword, text) ==
  \E i \in 1..(Len(text) - Len(keyword) + 1) :
    SubSeq(text, i, i + Len(keyword) - 1) = keyword

\* sum(1 for keyword in keywords if keyword in text)
KeywordCount(keywords, text) ==
  Cardinality({i \in 1..Len(keywords) : Contains(keywords[i], text)})

\* any(keyword in text for keyword in keywords)
AnyKeyword(keywords, text) ==
  \E i \in 1..Len(keywords) : Contains(keywords[i], text)

\* max(len(keywords) for keywords in table.values())
MaxKeywords(table, keys) ==
  CHOOSE n \in {Len(table[keys[i]]) : i \in 1..Len(keys)} :
    \A j \in 1..Len(keys) : Len(table[keys[j]]) <= n

\* the last key, in dict order, with the highest score
MaxKey_last(keys, scores) ==
  keys[CHOOSE i \in 1..Len(keys) :
         /\ \A j \in 1..Len(keys) : scores[keys[j]] <= scores[keys[i]]
         /\ \A j \in (i + 1)..Len(keys) : scores[keys[j]] < scores[keys[i]]]

\* max(scores, key=scores.get): the first key, in dict order, with the
\* highest score
MaxKey(keys, scores) ==
  keys[CHOOSE i \in 1..Len(keys) :
         /\ \A j \in 1..Len(keys) : scores[keys[j]] <= scores[keys[i]]
         /\ \A j \in 1..(i - 1) : scores[keys[j]] < scores[keys[i]]]

\* round(n / d) for d > 0, ties to the even neighbour (Python's round on an
\* exactly representable tie)
RoundDiv(n, d) ==
  LET q == n \div d
      r == n % d
  IN  IF 2 * r < d THEN q
      ELSE IF 2 * r > d THEN q + 1
      ELSE IF q % 2 = 0 THEN q ELSE q + 1

Min(a, b) == IF a <= b THEN a ELSE b

\* ------------------------------------------------------------------------
\* TextAnalyzer
\* ------------------------------------------------------------------------

\* scores of the keyword tables used by both classifiers
TableScores(table, keys, text_lower) ==
  [k \in {keys[i] : i \in 1..Len(keys)} |-> KeywordCount(table[k], text_lower)]

\* TextAnalyzer._classify_business_type: (business type, confidence)
_classify_business_type(text) ==
  LET text_lower == lower(text)
      scores == TableScores(business_keywords, business_keywords_keys, text_lower)
      best_type == MaxKey(business_keywords_keys, scores)
  IN  IF \A k \in DOMAIN scores : scores[k] = 0
      THEN <<"unknown", 0>>
      ELSE <<best_type,
             RoundDiv(100 * scores[best_type],
                      MaxKeywords(business_keywords, business_keywords_keys))>>

\* mutant: the no-keyword default of the business classifier is returned
_detect_platform_preference_unknown(text) ==
  LET text_lower == lower(text)
      scores == TableScores(platform_indicators, platform_indicators_keys, text_lower)
      best_platform == MaxKey(platform_indicators_keys, scores)
  IN  IF \A k \in DOMAIN scores : scores[k] = 0
      THEN <<"unknown", 0>>
      ELSE <<best_platform,
             RoundDiv(100 * scores[best_platform],
                      MaxKeywords(platform_indicators, platform_indicators_keys))>>

\* TextAnalyzer._detect_platform_preference: (platform, confidence)
_detect_platform_preference(text) ==
  LET text_lower == lower(text)
      scores == TableScores(platform_indicators, platform_indicators_keys, text_lower)
      best_platform == MaxKey(platform_indicators_keys, scores)
  IN  IF \A k \in DOMAIN scores : scores[k] = 0
      THEN <<"web", 30>>
      ELSE <<best_platform,
             RoundDiv(100 * scores[best_platform],
                      MaxKeywords(platform_indicators, platform_indicators_keys))>>

\* TextAnalyzer._extract_features: the detected categories in table order
_extract_features(text) ==
  LET text_lower == lower(text)
  IN  SelectSeq(feature_keywords_keys,
                LAMBDA k : AnyKeyword(feature_keywords[k], text_lower))

\* TextAnalyzer._detect_notification_requirement
\* line 324 with one major indicator sufficing
_detect_notification_requirement_one_major(text) ==
  LET text_lower == lower(text)
      major_count == KeywordCount(major_notification_keywords, text_lower)
      minor_count == KeywordCount(minor_notification_keywords, text_lower)
  IN  IF major_count >= 1 THEN "major"
      ELSE IF minor_count > 0 THEN "minor"
      ELSE "none"

_detect_notification_requirement(text) ==
  LET text_lower == lower(text)
      major_count == KeywordCount(major_notification_keywords, text_lower)
      minor_count == KeywordCount(minor_notification_keywords, text_lower)
  IN  IF major_count >= 2 THEN "major"
      ELSE IF minor_count > 0 THEN "minor"
      ELSE "none"

\* TextAnalyzer._detect_portability_requirement, lines 267-285: its keywords
high_portability_keywords ==
  <<
    <<"m","o","b","i","l","e">>,  \* mobile
    <<"p","h","o","n","e">>,  \* phone
    <<"s","m","a","r","t","p","h","o","n","e">>,  \* smartphone
    <<"t","a","b","l","e","t">>,  \* tablet
    <<"i","o","s">>,  \* ios
    <<"a","n","d","r","o","i","d">>,  \* android
    <<"o","n","-","t","h","e","-","g","o">>,  \* on-the-go
    <<"p","o","r","t","a","b","l","e">>,  \* portable
    <<"t","r","a","v","e","l">>,  \* travel
    <<"r","e","m","o","t","e">>,  \* remote
    <<"f","i","e","l","d">>,  \* field
    <<"o","u","t","d","o","o","r">>,  \* outdoor
    <<"d","e","l","i","v","e","r","y">>,  \* delivery
    <<"t","r","a","c","k","i","n","g">>,  \* tracking
    <<"l","o","c","a","t","i","o","n">>,  \* location
    <<"g","p","s">>,  \* gps
    <<"r","e","a","l","-","t","i","m","e">>,  \* real-time
    <<"i","n","s","t","a","n","t">>,  \* instant
    <<"a","n","y","w","h","e","r","e">>,  \* anywhere
    <<"e","v","e","r","y","w","h","e","r","e">>,  \* everywhere
    <<"a","c","c","e","s","s","i","b","l","e">>,  \* accessible
    <<"m","o","b","i","l","e","-","f","i","r","s","t">>,  \* mobile-first
    <<"r","e","s","p","o","n","s","i","v","e">>  \* responsive
  >>

medium_portability_keywords ==
  <<
    <<"w","e","b">>,  \* web
    <<"w","e","b","s","i","t","e">>,  \* website
    <<"o","n","l","i","n","e">>,  \* online
    <<"b","r","o","w","s","e","r">>,  \* browser
    <<"r","e","s","p","o","n","s","i","v","e">>,  \* responsive
    <<"t","a","b","l","e","t","-","f","r","i","e","n","d","l","y">>,  \* tablet-friendly
    <<"c","r","o","s","s","-","p","l","a","t","f","o","r","m">>,  \* cross-platform
    <<"a","c","c","e","s","s","i","b","l","e">>,  \* accessible
    <<"r","e","m","o","t","e"," ","a","c","c","e","s","s">>,  \* remote access
    <<"c","l","o","u","d","-","b","a","s","e","d">>  \* cloud-based
  >>

low_portability_keywords ==
  <<
    <<"d","e","s","k","t","o","p">>,  \* desktop
    <<"c","o","m","p","u","t","e","r">>,  \* computer
    <<"p","c">>,  \* pc
    <<"w","o","r","k","s","t","a","t","i","o","n">>,  \* workstation
    <<"o","f","f","i","c","e">>,  \* office
    <<"s","t","a","t","i","o","n","a","r","y">>,  \* stationary
    <<"f","i","x","e","d">>,  \* fixed
    <<"l","o","c","a","l">>,  \* local
    <<"i","n","t","e","r","n","a","l">>,  \* internal
    <<"e","n","t","e","r","p","r","i","s","e">>,  \* enterprise
    <<"c","o","r","p","o","r","a","t","e">>  \* corporate
  >>

\* TextAnalyzer._detect_portability_requirement
_detect_portability_requirement(text) ==
  LET text_lower == lower(text)
      high_count == KeywordCount(high_portability_keywords, text_lower)
      medium_count == KeywordCount(medium_portability_keywords, text_lower)
      low_count == KeywordCount(low_portability_keywords, text_lower)
  IN  IF high_count > 0 THEN "high"
      ELSE IF medium_count > 0 THEN "medium"
      ELSE IF low_count > 0 THEN "low"
      ELSE "medium"

\* TextAnalyzer._extract_budget_indicators: the budget_mentioned flag
budget_mentioned(text) == AnyKeyword(budget_keywords, lower(text))

Digits == {"0", "1", "2", "3", "4", "5", "6", "7", "8", "9"}

DigitValue ==
  ("0" :> 0) @@ ("1" :> 1) @@ ("2" :> 2) @@ ("3" :> 3) @@ ("4" :> 4)
  @@ ("5" :> 5) @@ ("6" :> 6) @@ ("7" :> 7) @@ ("8" :> 8) @@ ("9" :> 9)

IsDigit(text, i) == i >= 1 /\ i <= Len(text) /\ text[i] \in Digits

\* \d+ from position i (a digit): the last position of the run of digits
DigitsEnd(text, i) ==
  CHOOSE j \in i..Len(text) :
    /\ \A k \in i..j : IsDigit(text, k)
    /\ ~IsDigit(text, j + 1)

\* (?:,\d{3})* after position p: the last position it consumes
RECURSIVE GroupsEnd(_, _)
GroupsEnd(text, p) ==
  IF /\ p + 4 <= Len(text)
     /\ text[p + 1] = ","
     /\ IsDigit(text, p + 2) /\ IsDigit(text, p + 3) /\ IsDigit(text, p + 4)
  THEN GroupsEnd(text, p + 4)
  ELSE p

\* (?:\.\d{2})? after position p: the last position it consumes
CentsEnd(text, p) ==
  IF /\ p + 3 <= Len(text)
     /\ text[p + 1] = "."
     /\ IsDigit(text, p + 2) /\ IsDigit(text, p + 3)
  THEN p + 3
  ELSE p

\* re.findall(r'\$?(\d+(?:,\d{3})*(?:\.\d{2})?)', text) from position i on:
\* the captured groups of the leftmost non-overlapping matches
RECURSIVE findall(_, _)
findall(text, i) ==
  IF i > Len(text) THEN <<>>
  ELSE LET start == IF text[i] = "$" THEN i + 1 ELSE i
       IN  IF IsDigit(text, start)
           THEN LET last == CentsEnd(text, GroupsEnd(text, DigitsEnd(text, start)))
                IN  <<SubSeq(text, start, last)>> \o findall(text, last + 1)
           ELSE findall(text, i + 1)

\* num.replace(',', '')
RemoveCommas(num) == SelectSeq(num, LAMBDA ch : ch # ",")

\* int(s) raises ValueError unless s is a string of digits
int_error(s) ==
  IF s # <<>> /\ \A k \in 1..Len(s) : s[k] \in Digits THEN "none" ELSE "ValueError"

\* int(s) for a string of digits
RECURSIVE int(_)
int(s) ==
  IF s = <<>> THEN 0
  ELSE 10 * int(SubSeq(s, 1, Len(s) - 1)) + DigitValue[s[Len(s)]]

\* the exception line 198 raises for the text, "none" when it raises nothing
_extract_budget_indicators_error(text) ==
  LET numbers == findall(text, 1)
  IN  IF \E n \in 1..Len(numbers) : int_error(RemoveCommas(numbers[n])) # "none"
      THEN "ValueError"
      ELSE "none"

\* line 198: the numbers above 100
budget_amounts(text) ==
  LET numbers == findall(text, 1)
      parsed == [n \in 1..Len(numbers) |-> int(RemoveCommas(numbers[n]))]
  IN  SelectSeq(parsed, LAMBDA amount : amount > 100)

\* TextAnalyzer._extract_budget_indicators
_extract_budget_indicators(text) ==
  [ budget_mentioned |-> budget_mentioned(text),
    budget_amounts |-> budget_amounts(text),
    has_budget_info |-> budget_amounts(text) # <<>> ]

\* TextAnalyzer._extract_timeline_indicators: the timeline_mentioned flag
timeline_mentioned(text) == AnyKeyword(timeline_keywords, lower(text))

\* Token boundaries.  text.split() cuts at whitespace; the spaCy tokenizer
\* (self.nlp) additionally makes every punctuation character a token of its
\* own, so a token that can contain a keyword is a maximal run of characters
\* that are neither whitespace nor punctuation.
Whitespace == {" "}

Punctuation == {"-", ",", ".", "!", "?", "$"}

\* first positions of the maximal runs of characters outside seps
RunStarts(text, seps) ==
  {i \in 1..Len(text) : text[i] \notin seps /\ (i = 1 \/ text[i - 1] \in seps)}

\* the run that starts at position i
RunAt(text, seps, i) ==
  LET last == CHOOSE j \in i..Len(text) :
                /\ \A k \in i..j : text[k] \notin seps
                /\ (j = Len(text) \/ text[j + 1] \in seps)
  IN  SubSeq(text, i, last)

\* sum(1 for token in doc if any(keyword in token.text ...)) for one table
TokenMatches(table, keys, text_lower) ==
  LET seps == Whitespace \cup Punctuation
  IN  Cardinality({i \in RunStarts(text_lower, seps) :
        \E n \in 1..Len(keys) : AnyKeyword(table[keys[n]], RunAt(text_lower, seps, i))})

\* the tokens that contain a keyword of any of the three tables
AnyTableMatches(text_lower) ==
  LET seps == Whitespace \cup Punctuation
  IN  Cardinality({i \in RunStarts(text_lower, seps) :
        LET token == RunAt(text_lower, seps, i)
        IN  \/ \E n \in 1..Len(business_keywords_keys) :
                 AnyKeyword(business_keywords[business_keywords_keys[n]], token)
            \/ \E n \in 1..Len(platform_indicators_keys) :
                 AnyKeyword(platform_indicators[platform_indicators_keys[n]], token)
            \/ \E n \in 1..Len(feature_keywords_keys) :
                 AnyKeyword(feature_keywords[feature_keywords_keys[n]], token)})

\* len(doc): every run and every punctuation character is a token
TokenCount(text_lower) ==
  Cardinality(RunStarts(text_lower, Whitespace \cup Punctuation))
  + Cardinality({i \in 1..Len(text_lower) : text_lower[i] \in Punctuation})

\* lines 98-107 with one count over the three tables: a token that matches
\* several tables is counted once
_calculate_clarity_score_once(text) ==
  LET text_lower == lower(text)
      total_indicators == AnyTableMatches(text_lower)
      text_length == Cardinality(RunStarts(text, Whitespace))
  IN  IF text_length = 0 THEN 0
      ELSE Min(100, RoundDiv(1000 * total_indicators, text_length) + 20)

\* TextAnalyzer._calculate_clarity_score, in hundredths
_calculate_clarity_score(text) ==
  LET text_lower == lower(text)
      business_terms == TokenMatches(business_keywords, business_keywords_keys, text_lower)
      platform_terms == TokenMatches(platform_indicators, platform_indicators_keys, text_lower)
      feature_terms == TokenMatches(feature_keywords, feature_keywords_keys, text_lower)
      total_indicators == business_terms + platform_terms + feature_terms
      text_length == Cardinality(RunStarts(text, Whitespace))
  IN  IF text_length = 0 THEN 0
      ELSE Min(100, RoundDiv(1000 * total_indicators, text_length) + 20)

\* the exception analyze_text raises for the text, "none" when it returns:
\* of the extractors of lines 63-75 only _extract_budget_indicators can raise
analyze_text_error(text) == _extract_budget_indicators_error(text)

\* TextAnalyzer.analyze_text (sentiment, urgency and the processed text are
\* read by no later stage and are left out of the record)
analyze_text(text) ==
  [ original_text |-> text,
    clarity_score |-> _calculate_clarity_score(text),
    business_type |-> _classify_business_type(text),
    platform_preference |-> _detect_platform_preference(text),
    detected_features |-> _extract_features(text),
    budget_indicators |-> _extract_budget_indicators(text),
    timeline_indicators |-> [timeline_mentioned |-> timeline_mentioned(text)],
    portability |-> _detect_portability_requirement(text),
    notification_requirement |-> _detect_notification_requirement(text) ]

\* TextAnalyzer.needs_clarification
\* lines 234-237 with "and" in place of "or"
needs_clarification_all(analysis) ==
  /\ analysis.clarity_score < 50
  /\ analysis.business_type[1] = "unknown"
  /\ analysis.business_type[2] < 30
  /\ Len(analysis.detected_features) = 0

needs_clarification(analysis) ==
  \/ analysis.clarity_score < 50
  \/ analysis.business_type[1] = "unknown"
  \/ analysis.business_type[2] < 30
  \/ Len(analysis.detected_features) = 0

\* generate_clarification_questions without the limit of line 260
generate_clarification_questions_unlimited(analysis) ==
  LET q1 == IF analysis.business_type[1] = "unknown" \/ analysis.business_type[2] < 30
            THEN <<"What type of business do you operate?">> ELSE <<>>
      q2 == IF Len(analysis.detected_features) = 0
            THEN <<"What specific features or functionality do you need?">> ELSE <<>>
      q3 == IF ~analysis.budget_indicators.budget_mentioned
            THEN <<"Do you have a budget range in mind for this project?">> ELSE <<>>
      q4 == IF ~analysis.timeline_indicators.timeline_mentioned
            THEN <<"When do you need this system to be completed?">> ELSE <<>>
      q5 == IF analysis.clarity_score < 40
            THEN <<"Can you provide more details about your business requirements?">> ELSE <<>>
  IN  q1 \o q2 \o q3 \o q4 \o q5

\* TextAnalyzer.generate_clarification_questions
generate_clarification_questions(analysis) ==
  LET q1 == IF analysis.business_type[1] = "unknown" \/ analysis.business_type[2] < 30
            THEN <<"What type of business do you operate?">> ELSE <<>>
      q2 == IF Len(analysis.detected_features) = 0
            THEN <<"What specific features or functionality do you need?">> ELSE <<>>
      q3 == IF ~analysis.budget_indicators.budget_mentioned
            THEN <<"Do you have a budget range in mind for this project?">> ELSE <<>>
      q4 == IF ~analysis.timeline_indicators.timeline_mentioned
            THEN <<"When do you need this system to be completed?">> ELSE <<>>
      q5 == IF analysis.clarity_score < 40
            THEN <<"Can you provide more details about your business requirements?">> ELSE <<>>
      questions == q1 \o q2 \o q3 \o q4 \o q5
  IN  SubSeq(questions, 1, Min(3, Len(questions)))
tech_stacks ==
  [
    mobile |-> [
      flutter |->
        [ name |-> "Flutter + Firebase",
          description |-> "Cross-platform mobile development with cloud backend",
          pros |-> <<"Cross-platform", "Fast development", "Rich UI components">>,
          cons |-> <<"Limited native features", "Large app size">>,
          cost_factor |-> 10,
          timeline_factor |-> 10 ],
      react_native |->
        [ name |-> "React Native + Node.js",
          description |-> "JavaScript-based mobile development",
          pros |-> <<"Cross-platform", "Large community", "Reusable code">>,
          cons |-> <<"Performance issues", "Native dependencies">>,
          cost_factor |-> 9,
          timeline_factor |-> 11 ],
      native_ios |->
        [ name |-> "Swift + iOS Native",
          description |-> "Native iOS development",
          pros |-> <<"Best performance", "Full iOS features", "App Store optimization">>,
          cons |-> <<"iOS only", "Higher cost", "Longer timeline">>,
          cost_factor |-> 13,
          timeline_factor |-> 14 ],
      native_android |->
        [ name |-> "Kotlin + Android Native",
          description |-> "Native Android development",
          pros |-> <<"Best performance", "Full Android features", "Google Play optimization">>,
          cons |-> <<"Android only", "Higher cost", "Longer timeline">>,
          cost_factor |-> 12,
          timeline_factor |-> 13 ]
    ],
    web |-> [
      mern |->
        [ name |-> "MERN Stack (MongoDB, Express, React, Node.js)",
          description |-> "Full-stack JavaScript development",
          pros |-> <<"Fast development", "Large ecosystem", "Scalable">>,
          cons |-> <<"JavaScript everywhere", "Learning curve">>,
          cost_factor |-> 8,
          timeline_factor |-> 9 ],
      mean |->
        [ name |-> "MEAN Stack (MongoDB, Express, Angular, Node.js)",
          description |-> "Full-stack JavaScript with Angular",
          pros |-> <<"TypeScript support", "Enterprise-ready", "Comprehensive framework">>,
          cons |-> <<"Steep learning curve", "Heavy framework">>,
          cost_factor |-> 10,
          timeline_factor |-> 11 ],
      django |->
        [ name |-> "Django + PostgreSQL",
          description |-> "Python-based web development",
          pros |-> <<"Rapid development", "Built-in admin", "Security features">>,
          cons |-> <<"Less flexible", "Monolithic">>,
          cost_factor |-> 9,
          timeline_factor |-> 8 ],
      laravel |->
        [ name |-> "Laravel + MySQL",
          description |-> "PHP-based web development",
          pros |-> <<"Elegant syntax", "Rich ecosystem", "Easy deployment">>,
          cons |-> <<"PHP ecosystem", "Performance concerns">>,
          cost_factor |-> 7,
          timeline_factor |-> 9 ]
    ],
    desktop |-> [
      electron |->
        [ name |-> "Electron + React",
          description |-> "Cross-platform desktop development",
          pros |-> <<"Cross-platform", "Web technologies", "Rapid development">>,
          cons |-> <<"Large app size", "Memory usage", "Security concerns">>,
          cost_factor |-> 8,
          timeline_factor |-> 9 ],
      qt |->
        [ name |-> "Qt + Python",
          description |-> "Native desktop development",
          pros |-> <<"Native performance", "Cross-platform", "Rich UI">>,
          cons |-> <<"Complex setup", "Licensing costs">>,
          cost_factor |-> 11,
          timeline_factor |-> 12 ],
      wpf |->
        [ name |-> "WPF + C#",
          description |-> "Windows desktop development",
          pros |-> <<"Native Windows", "Rich UI", "Good performance">>,
          cons |-> <<"Windows only", "Microsoft ecosystem">>,
          cost_factor |-> 10,
          timeline_factor |-> 10 ]
    ]
  ]

\* self.tech_stacks (line 14): the table the engine object holds. It starts as
\* tech_stacks; the pros and cons lists in it are the very list objects that
\* _recommend_tech_stack hands out (lines 484-485).
VARIABLES engine_tech_stacks

\* list(available_stacks.keys()): the stack ids of a platform in dict order
tech_stacks_keys ==
  [
    mobile |-> <<"flutter", "react_native", "native_ios", "native_android">>,
    web |-> <<"mern", "mean", "django", "laravel">>,
    desktop |-> <<"electron", "qt", "wpf">>
  ]

business_features ==
  [
    retail |->
      <<"inventory_management", "payment_processing", "order_tracking", "customer_management", "analytics_dashboard", "multi_vendor_support">>,
    restaurant |->
      <<"menu_management", "online_ordering", "delivery_tracking", "reservation_system", "kitchen_display", "loyalty_program">>,
    healthcare |->
      <<"patient_management", "appointment_scheduling", "medical_records", "billing_system", "prescription_management", "telemedicine">>,
    education |->
      <<"course_management", "student_portal", "progress_tracking", "video_streaming", "assignment_submission", "grade_management">>,
    logistics |->
      <<"route_optimization", "real_time_tracking", "inventory_management", "driver_app", "warehouse_management", "analytics_dashboard">>,
    finance |->
      <<"account_management", "transaction_history", "budget_tracking", "financial_reports", "investment_portfolio", "loan_management">>,
    real_estate |->
      <<"property_listings", "search_filters", "virtual_tours", "contact_forms", "lead_management", "property_analytics">>,
    consulting |->
      <<"project_management", "time_tracking", "client_billing", "report_generation", "resource_management", "knowledge_base">>
  ]

base_cost == [mobile |-> 15000, web |-> 12000, desktop |-> 10000]

base_timeline == [mobile |-> 12, web |-> 10, desktop |-> 8]

business_multipliers ==
  [healthcare |-> 13, finance |-> 14, logistics |-> 12, retail |-> 10, restaurant |-> 9, education |-> 11, real_estate |-> 10, consulting |-> 9]


\* ------------------------------------------------------------------------
\* Python dict and exception helpers
\* ------------------------------------------------------------------------

\* a dict that has no keys, and dict.get(key, default)
EmptyDict == <<>>

Get(dict, key, default) == IF key \in DOMAIN dict THEN dict[key] ELSE default

\* additional_info[key]: the exception the subscript raises, or "none".
\* None is not subscriptable (TypeError); a missing key is a KeyError.
SubscriptError(additional_info, key) ==
  IF additional_info.none THEN "TypeError"
  ELSE IF key \notin additional_info.keys THEN "KeyError"
  ELSE "none"

\* `additional_info and key in additional_info`
HasKey(additional_info, key) ==
  ~additional_info.none /\ key \in additional_info.keys

\* the first exception raised by a sequence of statements
FirstError(errors) ==
  IF \A i \in 1..Len(errors) : errors[i] = "none" THEN "none"
  ELSE errors[CHOOSE i \in 1..Len(errors) :
                errors[i] # "none" /\ \A j \in 1..(i - 1) : errors[j] = "none"]

\* str.title() of a platform name
title(platform) ==
  CASE platform = "mobile" -> "Mobile"
    [] platform = "web" -> "Web"
    [] platform = "desktop" -> "Desktop"
    [] OTHER -> platform

\* ------------------------------------------------------------------------
\* RecommendationEngine._recommend_platform
\* ------------------------------------------------------------------------

\* the exception raised by lines 235-237, or "none"
_recommend_platform_error(analysis, additional_info) ==
  FirstError(<< SubscriptError(additional_info, "portability_requirement"),
                SubscriptError(additional_info, "business_type"),
                SubscriptError(additional_info, "access_requirement") >>)

\* the dicts of lines 242-247, 249-255 and 257-262
MobileRec(business_type) ==
  [ type |-> business_type,
    platform |-> "mobile",
    confidence |-> 95,
    reasoning |-> "Mobile recommended due to high portability requirement" ]

DesktopRec(business_type) ==
  [ type |-> business_type,
    platform |-> "desktop",
    confidence |-> 90,
    reasoning |-> "Desktop recommended due to low portability requirement" ]

PreferenceRec(business_type, platform_pref) ==
  [ type |-> business_type,
    platform |-> platform_pref,
    confidence |-> 90,
    reasoning |-> title(platform_pref)
                  \o " recommended due to medium portability requirement" ]

\* mutant: the low-portability/offline test is made before the
\* high-portability/major-notification test
_recommend_platform_rule2_first(analysis, additional_info) ==
  LET platform_pref == analysis.platform_preference[1]
      portability == additional_info.portability_requirement
      business_type == additional_info.business_type
      access == additional_info.access_requirement
      notification_requirement == analysis.notification_requirement
  IN  IF portability = "low" \/ access = "offline"
      THEN DesktopRec(business_type)
      ELSE IF portability = "high" \/ notification_requirement = "major"
      THEN MobileRec(business_type)
      ELSE PreferenceRec(business_type, platform_pref)

\* mutant: any notification requirement other than "none" selects mobile
_recommend_platform_any_notification(analysis, additional_info) ==
  LET platform_pref == analysis.platform_preference[1]
      portability == additional_info.portability_requirement
      business_type == additional_info.business_type
      access == additional_info.access_requirement
      notification_requirement == analysis.notification_requirement
  IN  IF portability = "high" \/ notification_requirement # "none"
      THEN MobileRec(business_type)
      ELSE IF portability = "low" \/ access = "offline"
      THEN DesktopRec(business_type)
      ELSE PreferenceRec(business_type, platform_pref)

\* mutant: desktop needs low portability and offline access together
_recommend_platform_rule2_and(analysis, additional_info) ==
  LET platform_pref == analysis.platform_preference[1]
      portability == additional_info.portability_requirement
      business_type == additional_info.business_type
      access == additional_info.access_requirement
      notification_requirement == analysis.notification_requirement
  IN  IF portability = "high" \/ notification_requirement = "major"
      THEN MobileRec(business_type)
      ELSE IF portability = "low" /\ access = "offline"
      THEN DesktopRec(business_type)
      ELSE PreferenceRec(business_type, platform_pref)

\* mutant: the last branch recommends web whatever the detected preference
_recommend_platform_rule3_web(analysis, additional_info) ==
  LET portability == additional_info.portability_requirement
      business_type == additional_info.business_type
      access == additional_info.access_requirement
      notification_requirement == analysis.notification_requirement
  IN  IF portability = "high" \/ notification_requirement = "major"
      THEN MobileRec(business_type)
      ELSE IF portability = "low" \/ access = "offline"
      THEN DesktopRec(business_type)
      ELSE PreferenceRec(business_type, "web")

\* lines 231-262: the returned dict, when no exception is raised
_recommend_platform(analysis, additional_info) ==
  LET platform_pref == analysis.platform_preference[1]
      portability == additional_info.portability_requirement
      business_type == additional_info.business_type
      access == additional_info.access_requirement
      notification_requirement == analysis.notification_requirement
  IN  IF portability = "high" \/ notification_requirement = "major"
      THEN MobileRec(business_type)
      ELSE IF portability = "low" \/ access = "offline"
      THEN DesktopRec(business_type)
      ELSE PreferenceRec(business_type, platform_pref)

\* ------------------------------------------------------------------------
\* RecommendationEngine._recommend_features
\* ------------------------------------------------------------------------

\* random.randint(lo, hi): the draw-th value of the stream chosen by seed.
\* A stream repeats one of the RandPatterns; 0, 1, 2 stand for the lowest,
\* the middle and the highest value of the range.
RandPatterns == << <<0>>, <<2>>, <<0, 2>>, <<2, 1, 0>>, <<1>>, <<1, 2>>, <<0, 0, 1>> >>

randint(lo, hi, seed, draw) ==
  LET pattern == RandPatterns[seed]
      u == pattern[(draw % Len(pattern)) + 1]
  IN  CASE u = 0 -> lo
        [] u = 1 -> (lo + hi) \div 2
        [] OTHER -> hi

\* one feature_rec; n is the number of entries already in the list, and
\* every entry draws its effort first and its cost second
FeatureRec(feature, priority, seed, n) ==
  [ feature |-> feature,
    priority |-> priority,
    estimated_effort |-> randint(2, 8, seed, 2 * n),
    estimated_cost |-> randint(1000, 5000, seed, 2 * n + 1) ]

\* the loops of lines 404-412 and 415-423: one entry per feature, appended
\* without a membership test
RECURSIVE AppendAll(_, _, _, _)
AppendAll(recs, features, priority, seed) ==
  IF features = <<>> THEN recs
  ELSE AppendAll(Append(recs, FeatureRec(Head(features), priority, seed, Len(recs))),
                 Tail(features), priority, seed)

\* the loop of lines 426-435: an entry is appended only if its id is not
\* yet in the list
\* line 426 without its membership test
RECURSIVE AppendNew_untested(_, _, _, _)
AppendNew_untested(recs, features, priority, seed) ==
  IF features = <<>> THEN recs
  ELSE AppendNew_untested(
         Append(recs, FeatureRec(Head(features), priority, seed, Len(recs))),
         Tail(features), priority, seed)

RECURSIVE AppendNew(_, _, _, _)
AppendNew(recs, features, priority, seed) ==
  IF features = <<>> THEN recs
  ELSE LET present == \E i \in 1..Len(recs) : recs[i].feature = Head(features)
           next == IF present THEN recs
                   ELSE Append(recs, FeatureRec(Head(features), priority, seed, Len(recs)))
       IN  AppendNew(next, Tail(features), priority, seed)

_recommend_features_error(analysis, additional_info) ==
  SubscriptError(additional_info, "business_type")

\* _recommend_features with the loop of lines 414-423 ahead of the loop of
\* lines 402-412: the base features come before the detected ones
_recommend_features_base_first(analysis, additional_info, seed) ==
  LET business_type == additional_info.business_type
      all_base == IF business_type \in DOMAIN business_features
                  THEN business_features[business_type] ELSE <<>>
      base_features == SubSeq(all_base, 1, Min(3, Len(all_base)))
      base == AppendAll(<<>>, base_features, "medium", seed)
      with_detected == AppendAll(base, analysis.detected_features, "high", seed)
  IN  IF HasKey(additional_info, "requested_features")
      THEN AppendNew(with_detected, additional_info.requested_features, "medium", seed)
      ELSE with_detected

\* (the description field, a lookup in feature_descriptions that no later
\* stage reads, is left out of the entries)
_recommend_features(analysis, additional_info, seed) ==
  LET business_type == additional_info.business_type
      detected == AppendAll(<<>>, analysis.detected_features, "high", seed)
      all_base == IF business_type \in DOMAIN business_features
                  THEN business_features[business_type] ELSE <<>>
      base_features == SubSeq(all_base, 1, Min(3, Len(all_base)))
      with_base == AppendAll(detected, base_features, "medium", seed)
  IN  IF HasKey(additional_info, "requested_features")
      THEN AppendNew(with_base, additional_info.requested_features, "medium", seed)
      ELSE with_base

\* ------------------------------------------------------------------------
\* RecommendationEngine._recommend_tech_stack
\* ------------------------------------------------------------------------

\* line 444 as a plain subscript self.tech_stacks[platform]: a platform
\* without registered stacks raises
_recommend_tech_stack_error_subscript(platform_rec, analysis, additional_info) ==
  FirstError(<< SubscriptError(additional_info, "business_type"),
                IF platform_rec.platform \in DOMAIN tech_stacks
                THEN "none" ELSE "KeyError" >>)

_recommend_tech_stack_error(platform_rec, analysis, additional_info) ==
  SubscriptError(additional_info, "business_type")

\* lines 455-473: the default stack of a platform and business type
DefaultStack(platform, business_type) ==
  IF platform = "mobile"
  THEN IF business_type \in {"restaurant", "logistics"} THEN "flutter"
       ELSE IF business_type \in {"healthcare", "finance"} THEN "react_native"
       ELSE "flutter"
  ELSE IF platform = "web"
  THEN IF business_type \in {"retail", "real_estate"} THEN "mern"
       ELSE IF business_type \in {"healthcare", "finance"} THEN "django"
       ELSE IF business_type \in {"education"} THEN "laravel"
       ELSE "mern"
  ELSE "electron"

\* lines 455-473 without the override of lines 476-477
recommended_stack_default(platform, business_type, additional_info) ==
  DefaultStack(platform, business_type)

\* lines 455-477: the stack id, the caller's preference when there is one
recommended_stack(platform, business_type, additional_info) ==
  IF HasKey(additional_info, "tech_stack_preference")
  THEN additional_info.tech_stack_preference
  ELSE DefaultStack(platform, business_type)

_recommend_tech_stack(platform_rec, analysis, additional_info) ==
  LET platform == platform_rec.platform
      business_type == additional_info.business_type
      available_stacks == Get(engine_tech_stacks, platform, EmptyDict)
  IN  IF DOMAIN available_stacks = {}
      THEN [ tech_stack |-> "Unknown",
             description |-> "No technology stack available for this platform",
             pros |-> <<>>,
             cons |-> <<>>,
             confidence |-> 0 ]
      ELSE LET stack == recommended_stack(platform, business_type, additional_info)
               tech_stack_info ==
                 Get(available_stacks, stack,
                     available_stacks[tech_stacks_keys[platform][1]])
           IN  [ tech_stack |-> stack,
                 name |-> tech_stack_info.name,
                 description |-> tech_stack_info.description,
                 pros |-> tech_stack_info.pros,
                 cons |-> tech_stack_info.cons,
                 cost_factor |-> tech_stack_info.cost_factor,
                 timeline_factor |-> tech_stack_info.timeline_factor,
                 confidence |-> platform_rec.confidence ]

\* ------------------------------------------------------------------------
\* RecommendationEngine._estimate_cost and _estimate_timeline
\* ------------------------------------------------------------------------

RECURSIVE SumField(_, _)
SumField(recs, field) ==
  IF recs = <<>> THEN 0 ELSE Head(recs)[field] + SumField(Tail(recs), field)

\* line 521: the business type the multiplier is looked up for
CostBusinessType(platform_rec) ==
  Get(platform_rec, "business_type", <<"retail", 50>>)[1]

\* line 525: the total before any cap, in thousandths of a dollar
\* (cost_factor and the multiplier are in tenths)
UncappedCost(platform_rec, features_rec, tech_stack_rec) ==
  LET base_platform_cost == Get(base_cost, platform_rec.platform, 12000)
      feature_cost == SumField(features_rec, "estimated_cost")
      tech_stack_cost_factor == Get(tech_stack_rec, "cost_factor", 10)
      business_multiplier == Get(business_multipliers, CostBusinessType(platform_rec), 10)
  IN  (base_platform_cost + feature_cost) * tech_stack_cost_factor * business_multiplier * 10

\* budget_constraint is in thousandths of a dollar; the reported amounts
\* are round(..., 2), in cents
_estimate_cost(platform_rec, features_rec, tech_stack_rec, additional_info) ==
  LET uncapped == UncappedCost(platform_rec, features_rec, tech_stack_rec)
      total_cost == IF HasKey(additional_info, "budget_constraint")
                    THEN Min(uncapped, additional_info.budget_constraint)
                    ELSE uncapped
  IN  [ base_cost |-> Get(base_cost, platform_rec.platform, 12000),
        feature_cost |-> SumField(features_rec, "estimated_cost"),
        total_cost |-> RoundDiv(total_cost, 10),
        cost_range |-> <<RoundDiv(total_cost * 8, 100), RoundDiv(total_cost * 12, 100)>>,
        currency |-> "USD" ]

\* line 557: the total before any cap, in hundredths of a week
UncappedTimeline(platform_rec, features_rec, tech_stack_rec) ==
  LET base_platform_timeline == Get(base_timeline, platform_rec.platform, 10)
      feature_timeline == SumField(features_rec, "estimated_effort")
      tech_stack_timeline_factor == Get(tech_stack_rec, "timeline_factor", 10)
  IN  (base_platform_timeline + feature_timeline) * tech_stack_timeline_factor * 10

\* timeline_constraint is in hundredths of a week; the reported durations
\* are round(..., 1), in tenths of a week
_estimate_timeline(platform_rec, features_rec, tech_stack_rec, additional_info) ==
  LET uncapped == UncappedTimeline(platform_rec, features_rec, tech_stack_rec)
      total_timeline == IF HasKey(additional_info, "timeline_constraint")
                        THEN Min(uncapped, additional_info.timeline_constraint)
                        ELSE uncapped
  IN  [ base_timeline |-> Get(base_timeline, platform_rec.platform, 10),
        feature_timeline |-> SumField(features_rec, "estimated_effort"),
        total_timeline |-> RoundDiv(total_timeline, 10),
        timeline_range |-> <<RoundDiv(total_timeline * 8, 100),
                             RoundDiv(total_timeline * 12, 100)>>,
        unit |-> "weeks" ]

\* ------------------------------------------------------------------------
\* RecommendationEngine._calculate_confidence, in hundredths
\* ------------------------------------------------------------------------

\* round(n / d) of a quotient that was computed in binary floating point:
\* the nearest integer, and at a decimal tie either neighbour, since the
\* rounding error of the sum decides the side
RoundFloat(n, d) ==
  IF 2 * (n % d) = d THEN {n \div d, (n \div d) + 1} ELSE {RoundDiv(n, d)}

\* lines 578-583 with the four factors weighted 0.25 each
_calculate_confidence_even_weights(analysis, platform_rec, features_rec) ==
  LET clarity_score == analysis.clarity_score
      business_confidence == analysis.business_type[2]
      platform_confidence == platform_rec.confidence
      feature_factor == Min(100, 10 * Len(features_rec))
  IN  RoundFloat(clarity_score * 25 + business_confidence * 25
                 + platform_confidence * 25 + feature_factor * 25, 100)

\* the values the returned score can take (one value, except at a tie)
_calculate_confidence(analysis, platform_rec, features_rec) ==
  LET clarity_score == analysis.clarity_score
      business_confidence == analysis.business_type[2]
      platform_confidence == platform_rec.confidence
      feature_factor == Min(100, 10 * Len(features_rec))
  IN  RoundFloat(clarity_score * 30 + business_confidence * 30
                 + platform_confidence * 20 + feature_factor * 20, 100)

\* ------------------------------------------------------------------------
\* Inputs
\* ------------------------------------------------------------------------

\* longest requested_features list a caller passes
MaxRequested == 2

\* number of random streams a call can run under
NumSeeds == 4

TextChoices ==
  { TextOnlineStore, TextFoodDelivery, TextUrgentAlert, TextVague,
    TextDesktop, TextStoreShort, TextFoodApp, TextWeeklyEmail, TextEmpty,
    TextProducts, TextCents, TextDelivery }

PortabilityChoices == {"high", "medium", "low"}

AccessChoices == {"online", "offline"}

\* caller-supplied business types; "fitness" has no entry in the engine's
\* tables
BusinessTypeChoices == {"retail", "restaurant", "healthcare", "education", "fitness"}

\* budget_constraint values, in thousandths of a dollar: -5, 99.999 and
\* 20000
BudgetChoices == {-5000, 99999, 20000000}

\* timeline_constraint values, in hundredths of a week: 12.34, 12.36 and 50
TimelineChoices == {1234, 1236, 5000}

PreferenceChoices == {"django", "qt"}

RequestedIds == {"payment_processing", "custom_reports", "inventory"}

RequestedChoices ==
  UNION {[1..n -> RequestedIds] : n \in 0..MaxRequested}

RequiredKeys == {"portability_requirement", "business_type", "access_requirement"}

\* additional_info=None
NoneInfo ==
  [ none |-> TRUE, keys |-> {},
    portability_requirement |-> "", business_type |-> "", access_requirement |-> "",
    budget_constraint |-> 0, timeline_constraint |-> 0,
    requested_features |-> <<>>, tech_stack_preference |-> "" ]

\* a dict with exactly the three required keys
BaseInfo(portability, business_type, access) ==
  [ NoneInfo EXCEPT !.none = FALSE, !.keys = RequiredKeys,
                    !.portability_requirement = portability,
                    !.business_type = business_type,
                    !.access_requirement = access ]

BaseInfos ==
  { BaseInfo(p, b, a) : p \in PortabilityChoices, b \in BusinessTypeChoices,
                        a \in AccessChoices }

\* a dict without one of its string-valued keys
Without(info, key) ==
  [ info EXCEPT !.keys = @ \ {key}, ![key] = "" ]

With(info, key, value) ==
  [ info EXCEPT !.keys = @ \cup {key}, ![key] = value ]

InfoChoices ==
  {NoneInfo}
  \cup BaseInfos
  \cup { Without(i, k) : i \in BaseInfos, k \in RequiredKeys }
  \cup { With(i, "budget_constraint", v) : i \in BaseInfos, v \in BudgetChoices }
  \cup { With(i, "timeline_constraint", v) : i \in BaseInfos, v \in TimelineChoices }
  \cup { With(i, "tech_stack_preference", v) : i \in BaseInfos, v \in PreferenceChoices }
  \cup { With(BaseInfo("medium", b, "online"), "requested_features", v) :
            b \in BusinessTypeChoices, v \in RequestedChoices }

\* the additional_info of a direct call to one recommender
DirectInfoChoices == {NoneInfo} \cup BaseInfos

\* the platform_rec a caller hands to _recommend_tech_stack directly
\* ("tv" has no registered stacks)
PlatformRecChoices ==
  { [platform |-> p, confidence |-> 80] : p \in {"mobile", "web", "desktop", "tv"} }

Entries ==
  { "generate_recommendation", "_recommend_platform", "_recommend_features",
    "_recommend_tech_stack", "_estimate_cost", "_estimate_timeline" }

\* the direct calls that start from a platform_rec of the caller's making
FromPlatformRec == {"_recommend_tech_stack", "_estimate_cost", "_estimate_timeline"}

\* ------------------------------------------------------------------------
\* cli/interface.py: the prompts of the interactive session
\* ------------------------------------------------------------------------

\* str.strip() for the blank character: the text from its first to its last
\* character that is not a blank
strip(text) ==
  LET kept == {i \in 1..Len(text) : text[i] # " "}
  IN  IF kept = {}
      THEN <<>>
      ELSE SubSeq(text,
                  CHOOSE i \in kept : \A j \in kept : i <= j,
                  CHOOSE i \in kept : \A j \in kept : j <= i)

\* "urgent alert"
TextUrgent ==
  <<"u","r","g","e","n","t"," ","a","l","e","r","t">>

\* "on my desktop"
TextOnDesktop ==
  <<"o","n"," ","m","y"," ","d","e","s","k","t","o","p">>

\* "Done"
TextDone ==
  <<"D","o","n","e">>

\* what the user types at "Your requirements" (line 128)
CliTextChoices ==
  {TextEmpty, TextUrgent, TextStoreShort, TextVague, TextDesktop, TextCents}

\* what the user types at the follow-up prompt (lines 140-143)
FollowupChoices == {TextOnDesktop, TextUrgent, TextDone}

\* follow-ups of one session
MaxFollowups == 2

\* the user's answers to the prompts of _get_additional_info. budget is
\* float(Prompt.ask("Budget (USD)")) in thousandths of a dollar and timeline
\* float(Prompt.ask("Timeline (weeks)")) in hundredths of a week; 0 stands
\* for a declined Confirm as well as for the answer 0, which lines 103 and
\* 115 drop
AnswerChoices ==
  [ portability : PortabilityChoices,
    business_type : {"retail", "fitness"},
    budget : {0, 20000000},
    timeline : {0, 5000},
    access : AccessChoices ]

\* CLIInterface._get_additional_info
\* lines 86-92 storing the business type only when the analysis found one
_get_additional_info_known_only(client_input, answers) ==
  LET \* line 75: the analysis is {} for an empty text
      empty == client_input = <<>>
      analysis == analyze_text(client_input)
      portability == IF empty THEN answers.portability ELSE analysis.portability
      business_type == IF empty THEN "None" ELSE analysis.business_type[1]
      with_portability ==
        With([NoneInfo EXCEPT !.none = FALSE],
             "portability_requirement", portability)
      with_business ==
        IF business_type = "unknown"
        THEN with_portability
        ELSE With(with_portability, "business_type", business_type)
      with_budget ==
        IF answers.budget # 0
        THEN With(with_business, "budget_constraint", answers.budget)
        ELSE with_business
      with_timeline ==
        IF answers.timeline # 0
        THEN With(with_budget, "timeline_constraint", answers.timeline)
        ELSE with_budget
  IN  With(with_timeline, "access_requirement", answers.access)

_get_additional_info(client_input, answers) ==
  LET \* line 75: the analysis is {} for an empty text
      empty == client_input = <<>>
      analysis == analyze_text(client_input)
      \* lines 77-84: analyze_text always gives high, medium or low, so the
      \* prompt is shown for an empty analysis only
      portability == IF empty THEN answers.portability ELSE analysis.portability
      \* lines 86-92
      business_type ==
        IF empty THEN "None"
        ELSE IF analysis.business_type[1] = "unknown" THEN answers.business_type
        ELSE analysis.business_type[1]
      with_required ==
        With(With([NoneInfo EXCEPT !.none = FALSE],
                  "portability_requirement", portability),
             "business_type", business_type)
      \* lines 94-104: budget_indicators has no 'amount', the user is asked
      with_budget ==
        IF answers.budget # 0
        THEN With(with_required, "budget_constraint", answers.budget)
        ELSE with_required
      \* lines 105-116: timeline_indicators has no 'weeks', the user is asked
      with_timeline ==
        IF answers.timeline # 0
        THEN With(with_budget, "timeline_constraint", answers.timeline)
        ELSE with_budget
  IN  \* lines 117-121
      With(with_timeline, "access_requirement", answers.access)

\* line 157 with the follow-up taking the place of the earlier input
followup_input_replace(prev_input, followup) ==
  followup

\* line 157: client_input = prev_input + " " + followup
followup_input(prev_input, followup) ==
  prev_input \o <<" ">> \o followup

\* ------------------------------------------------------------------------
\* State
\* ------------------------------------------------------------------------

VARIABLES
  pc,                 \* position of the call in progress
  entry,              \* the method the caller invoked
  client_input,       \* the text of the call
  additional_info,    \* the additional_info of the call
  analysis,           \* result of analyze_text
  clarification,      \* needs_clarification and clarification_questions
  platform_rec,       \* result of _recommend_platform
  features_rec,       \* result of _recommend_features
  tech_stack_rec,     \* result of _recommend_tech_stack
  cost_estimate,      \* result of _estimate_cost
  timeline_estimate,  \* result of _estimate_timeline
  confidence_score,   \* result of _calculate_confidence
  error,              \* the exception that ended the call, or "none"
  prev_recommendation,\* cli: the recommendation shown before the follow-up
  followups           \* cli: follow-ups entered in the session so far

vars ==
  << pc, entry, client_input, additional_info, analysis, clarification,
     platform_rec, features_rec, tech_stack_rec, cost_estimate,
     timeline_estimate, confidence_score, error, engine_tech_stacks,
     prev_recommendation, followups >>

\* what a step of one call leaves alone: the engine's table and the state of
\* the command-line session
session_vars == << engine_tech_stacks, prev_recommendation, followups >>

NoAnalysis ==
  [ original_text |-> <<>>,
    clarity_score |-> 0,
    business_type |-> <<"unknown", 0>>,
    platform_preference |-> <<"web", 30>>,
    detected_features |-> <<>>,
    budget_indicators |-> [ budget_mentioned |-> FALSE,
                            budget_amounts |-> <<>>,
                            has_budget_info |-> FALSE ],
    timeline_indicators |-> [timeline_mentioned |-> FALSE],
    portability |-> "medium",
    notification_requirement |-> "none" ]

NoClarification == [needs_clarification |-> FALSE, clarification_questions |-> <<>>]

\* no call in progress, nothing computed
Init ==
  /\ pc = "idle"
  /\ entry = "none"
  /\ client_input = <<>>
  /\ additional_info = NoneInfo
  /\ analysis = NoAnalysis
  /\ clarification = NoClarification
  /\ platform_rec = EmptyDict
  /\ features_rec = <<>>
  /\ tech_stack_rec = EmptyDict
  /\ cost_estimate = EmptyDict
  /\ timeline_estimate = EmptyDict
  /\ confidence_score = 0
  /\ error = "none"
  /\ engine_tech_stacks = tech_stacks
  /\ prev_recommendation = EmptyDict
  /\ followups = 0

\* lines 208-209 exchanged: the features are recommended before the platform
StageAfter_features_first(st) ==
  IF entry = "generate_recommendation"
  THEN CASE st = "analyze_text" -> "clarification"
         [] st = "clarification" -> "features"
         [] st = "features" -> "platform"
         [] st = "platform" -> "tech_stack"
         [] st = "tech_stack" -> "cost"
         [] st = "cost" -> "timeline"
         [] st = "timeline" -> "confidence"
         [] OTHER -> "returned"
  ELSE IF st = "analyze_text"
  THEN CASE entry = "_recommend_platform" -> "platform"
         [] entry = "_recommend_features" -> "features"
         [] OTHER -> "tech_stack"
  ELSE IF st = "tech_stack"
  THEN CASE entry = "_estimate_cost" -> "cost"
         [] entry = "_estimate_timeline" -> "timeline"
         [] OTHER -> "returned"
  ELSE "returned"

\* the stage that follows st in the method the caller invoked
StageAfter(st) ==
  IF entry = "generate_recommendation"
  THEN CASE st = "analyze_text" -> "clarification"
         [] st = "clarification" -> "platform"
         [] st = "platform" -> "features"
         [] st = "features" -> "tech_stack"
         [] st = "tech_stack" -> "cost"
         [] st = "cost" -> "timeline"
         [] st = "timeline" -> "confidence"
         [] OTHER -> "returned"
  ELSE IF st = "analyze_text"
  THEN CASE entry = "_recommend_platform" -> "platform"
         [] entry = "_recommend_features" -> "features"
         [] OTHER -> "tech_stack"
  ELSE IF st = "tech_stack"
  THEN CASE entry = "_estimate_cost" -> "cost"
         [] entry = "_estimate_timeline" -> "timeline"
         [] OTHER -> "returned"
  ELSE "returned"

\* ------------------------------------------------------------------------
\* Actions
\* ------------------------------------------------------------------------

\* A caller invokes generate_recommendation(text, info), or, as the unit
\* tests do, analyses a text and hands the analysis to one recommender.
Call ==
  /\ pc = "idle"
  /\ \E e \in Entries, text \in TextChoices, info \in InfoChoices :
       /\ e # "generate_recommendation" => info \in DirectInfoChoices
       /\ entry' = e
       /\ client_input' = text
       /\ additional_info' = info
       /\ \/ e \notin FromPlatformRec /\ platform_rec' = EmptyDict
          \/ e \in FromPlatformRec /\ platform_rec' \in PlatformRecChoices
  /\ pc' = "analyze_text"
  /\ UNCHANGED << analysis, clarification, features_rec, tech_stack_rec,
                  cost_estimate, timeline_estimate, confidence_score, error >>
  /\ UNCHANGED session_vars

\* line 201: analysis = self.text_analyzer.analyze_text(client_input)
AnalyzeText ==
  /\ pc = "analyze_text"
  /\ IF analyze_text_error(client_input) = "none"
     THEN /\ analysis' = analyze_text(client_input)
          /\ pc' = StageAfter("analyze_text")
          /\ error' = error
     ELSE /\ analysis' = analysis
          /\ pc' = "raised"
          /\ error' = analyze_text_error(client_input)
  /\ UNCHANGED << entry, client_input, additional_info, clarification,
                  platform_rec, features_rec, tech_stack_rec, cost_estimate,
                  timeline_estimate, confidence_score >>
  /\ UNCHANGED session_vars

\* lines 204-205: needs_clarification and generate_clarification_questions
Clarification ==
  /\ pc = "clarification"
  /\ clarification' =
       [ needs_clarification |-> needs_clarification(analysis),
         clarification_questions |-> generate_clarification_questions(analysis) ]
  /\ pc' = StageAfter("clarification")
  /\ UNCHANGED << entry, client_input, additional_info, analysis,
                  platform_rec, features_rec, tech_stack_rec, cost_estimate,
                  timeline_estimate, confidence_score, error >>
  /\ UNCHANGED session_vars

\* line 208: platform_rec = self._recommend_platform(analysis, additional_info)
RecommendPlatform ==
  /\ pc = "platform"
  /\ LET err == _recommend_platform_error(analysis, additional_info)
     IN  IF err = "none"
         THEN /\ platform_rec' = _recommend_platform(analysis, additional_info)
              /\ pc' = StageAfter("platform")
              /\ error' = error
         ELSE /\ platform_rec' = platform_rec
              /\ pc' = "raised"
              /\ error' = err
  /\ UNCHANGED << entry, client_input, additional_info, analysis, clarification,
                  features_rec, tech_stack_rec, cost_estimate,
                  timeline_estimate, confidence_score >>
  /\ UNCHANGED session_vars

\* line 209: features_rec = self._recommend_features(analysis, additional_info)
RecommendFeatures ==
  /\ pc = "features"
  /\ LET err == _recommend_features_error(analysis, additional_info)
     IN  IF err = "none"
         THEN /\ \E seed \in 1..NumSeeds :
                   features_rec' = _recommend_features(analysis, additional_info, seed)
              /\ pc' = StageAfter("features")
              /\ error' = error
         ELSE /\ features_rec' = features_rec
              /\ pc' = "raised"
              /\ error' = err
  /\ UNCHANGED << entry, client_input, additional_info, analysis, clarification,
                  platform_rec, tech_stack_rec, cost_estimate,
                  timeline_estimate, confidence_score >>
  /\ UNCHANGED session_vars

\* line 210: tech_stack_rec = self._recommend_tech_stack(platform_rec, analysis,
\* additional_info)
RecommendTechStack ==
  /\ pc = "tech_stack"
  /\ LET err == _recommend_tech_stack_error(platform_rec, analysis, additional_info)
     IN  IF err = "none"
         THEN /\ tech_stack_rec' =
                   _recommend_tech_stack(platform_rec, analysis, additional_info)
              /\ pc' = StageAfter("tech_stack")
              /\ error' = error
         ELSE /\ tech_stack_rec' = tech_stack_rec
              /\ pc' = "raised"
              /\ error' = err
  /\ UNCHANGED << entry, client_input, additional_info, analysis, clarification,
                  platform_rec, features_rec, cost_estimate,
                  timeline_estimate, confidence_score >>
  /\ UNCHANGED session_vars

\* line 211: cost_estimate = self._estimate_cost(...)
EstimateCost ==
  /\ pc = "cost"
  /\ cost_estimate' =
       _estimate_cost(platform_rec, features_rec, tech_stack_rec, additional_info)
  /\ pc' = StageAfter("cost")
  /\ UNCHANGED << entry, client_input, additional_info, analysis, clarification,
                  platform_rec, features_rec, tech_stack_rec,
                  timeline_estimate, confidence_score, error >>
  /\ UNCHANGED session_vars

\* line 212: timeline_estimate = self._estimate_timeline(...)
EstimateTimeline ==
  /\ pc = "timeline"
  /\ timeline_estimate' =
       _estimate_timeline(platform_rec, features_rec, tech_stack_rec, additional_info)
  /\ pc' = StageAfter("timeline")
  /\ UNCHANGED << entry, client_input, additional_info, analysis, clarification,
                  platform_rec, features_rec, tech_stack_rec, cost_estimate,
                  confidence_score, error >>
  /\ UNCHANGED session_vars

\* lines 214-226: the aggregate is built, its confidence_score computed, and
\* the recommendation returned
CalculateConfidence ==
  /\ pc = "confidence"
  /\ confidence_score' \in _calculate_confidence(analysis, platform_rec, features_rec)
  /\ pc' = StageAfter("confidence")
  /\ UNCHANGED << entry, client_input, additional_info, analysis, clarification,
                  platform_rec, features_rec, tech_stack_rec, cost_estimate,
                  timeline_estimate, error >>
  /\ UNCHANGED session_vars

\* The caller has its result or its exception; the engine keeps nothing of
\* the call.
Finish ==
  /\ pc \in {"returned", "raised"}
  /\ pc' = "idle"
  /\ entry' = "none"
  /\ client_input' = <<>>
  /\ additional_info' = NoneInfo
  /\ analysis' = NoAnalysis
  /\ clarification' = NoClarification
  /\ platform_rec' = EmptyDict
  /\ features_rec' = <<>>
  /\ tech_stack_rec' = EmptyDict
  /\ cost_estimate' = EmptyDict
  /\ timeline_estimate' = EmptyDict
  /\ confidence_score' = 0
  /\ error' = "none"
  /\ prev_recommendation' = EmptyDict
  /\ followups' = 0
  /\ UNCHANGED engine_tech_stacks

Next ==
  \/ Call
  \/ AnalyzeText
  \/ Clarification
  \/ RecommendPlatform
  \/ RecommendFeatures
  \/ RecommendTechStack
  \/ EstimateCost
  \/ EstimateTimeline
  \/ CalculateConfidence
  \/ Finish

Spec == Init /\ [][Next]_vars

\* ------------------------------------------------------------------------
\* needs_clarification and generate_clarification_questions on their own
\* ------------------------------------------------------------------------

\* The two functions read five fields of the analysis.  The values below
\* are ones texts produce: a clarity score of 0.43 with a retail confidence
\* of 0.38 is that of a 172-word requirement with four matching tokens.
ClarityChoices == {20, 39, 40, 43, 49, 50, 100}

BusinessResultChoices ==
  { <<"unknown", 0>>, <<"retail", 12>>, <<"retail", 25>>, <<"retail", 38>>,
    <<"restaurant", 50>> }

DetectedChoices == { <<>>, <<"inventory">>, <<"inventory", "payment">> }

AnalysisChoices ==
  { [ NoAnalysis EXCEPT
        !.clarity_score = c,
        !.business_type = b,
        !.detected_features = f,
        !.budget_indicators = [@ EXCEPT !.budget_mentioned = bm],
        !.timeline_indicators = [@ EXCEPT !.timeline_mentioned = tm] ] :
      c \in ClarityChoices, b \in BusinessResultChoices, f \in DetectedChoices,
      bm \in BOOLEAN, tm \in BOOLEAN }

\* a caller hands an analysis to the analyzer's two clarification functions
ClarifyCall ==
  /\ pc = "idle"
  /\ entry' = "needs_clarification"
  /\ analysis' \in AnalysisChoices
  /\ pc' = "clarification"
  /\ UNCHANGED << client_input, additional_info, clarification, platform_rec,
                  features_rec, tech_stack_rec, cost_estimate,
                  timeline_estimate, confidence_score, error >>
  /\ UNCHANGED session_vars

ClarifyNext ==
  \/ ClarifyCall
  \/ Clarification
  \/ Finish

ClarifySpec == Init /\ [][ClarifyNext]_vars

\* ------------------------------------------------------------------------
\* A caller that keeps the returned recommendation and changes it.
\* Lines 479-490 put tech_stack_info['pros'] itself into the result: the
\* returned list and the list in self.tech_stacks are one object.

\* the table entry line 479 reads for a stack id: the id's own entry, or the
\* platform's first entry when the id is not registered
info_stack(platform, stack) ==
  IF stack \in DOMAIN engine_tech_stacks[platform]
  THEN stack
  ELSE tech_stacks_keys[platform][1]

\* caller edits per engine object
MaxEdits == 1

RECURSIVE AppendedItems(_)
\* items the pros lists of the (platform, stack id) pairs hold beyond those
\* of construction
AppendedItems(pairs) ==
  IF pairs = {}
  THEN 0
  ELSE LET x == CHOOSE y \in pairs : TRUE
       IN  Len(engine_tech_stacks[x[1]][x[2]].pros)
             - Len(tech_stacks[x[1]][x[2]].pros)
             + AppendedItems(pairs \ {x})

\* recommendation['tech_stack_recommendation']['pros'].append(item) on
\* the dict generate_recommendation returned (lines 214-226): the list is the
\* one of lines 479 and 484, so the table entry changes with it
CallerEdits ==
  /\ pc = "returned"
  /\ entry = "generate_recommendation"
  /\ "name" \in DOMAIN tech_stack_rec
  /\ AppendedItems(UNION { { <<p, k>> : k \in DOMAIN tech_stacks[p] } :
                             p \in DOMAIN tech_stacks }) < MaxEdits
  /\ LET platform == platform_rec.platform
         stack == info_stack(platform, tech_stack_rec.tech_stack)
         pros == Append(tech_stack_rec.pros, "edited by caller")
     IN  /\ tech_stack_rec' = [tech_stack_rec EXCEPT !.pros = pros]
         /\ engine_tech_stacks' =
              [engine_tech_stacks EXCEPT ![platform][stack].pros = pros]
  /\ UNCHANGED << pc, entry, client_input, additional_info, analysis,
                  clarification, platform_rec, features_rec, cost_estimate,
                  timeline_estimate, confidence_score, error,
                  prev_recommendation, followups >>

\* engine.generate_recommendation(text, info) by a caller that keeps the
\* engine object between calls
AliasCall ==
  /\ pc = "idle"
  /\ \E text \in {TextOnlineStore, TextDesktop}, info \in BaseInfos :
       /\ client_input' = text
       /\ additional_info' = info
  /\ entry' = "generate_recommendation"
  /\ platform_rec' = EmptyDict
  /\ pc' = "analyze_text"
  /\ UNCHANGED << analysis, clarification, features_rec, tech_stack_rec,
                  cost_estimate, timeline_estimate, confidence_score, error >>
  /\ UNCHANGED session_vars

AliasNext ==
  \/ AliasCall
  \/ AnalyzeText
  \/ Clarification
  \/ RecommendPlatform
  \/ RecommendFeatures
  \/ RecommendTechStack
  \/ EstimateCost
  \/ EstimateTimeline
  \/ CalculateConfidence
  \/ CallerEdits
  \/ Finish

AliasSpec == Init /\ [][AliasNext]_vars

\* ------------------------------------------------------------------------
\* The interactive session of cli/interface.py: _get_recommendation asks for
\* a text and the missing information, calls the engine, and re-runs it for
\* each follow-up until the user types done.

\* lines 125-135: the text, the blank check, _get_additional_info and the
\* first call of the engine. An exception of analyze_text in
\* _get_additional_info leaves _get_recommendation before the engine is
\* called and is caught in run() (lines 57-58).
GetRecommendation ==
  /\ pc = "idle"
  /\ \E text \in CliTextChoices, answers \in AnswerChoices :
       IF strip(text) = <<>>
       THEN UNCHANGED << pc, entry, client_input, additional_info, error >>
       ELSE /\ client_input' = text
            /\ IF analyze_text_error(text) # "none"
               THEN /\ entry' = "_get_additional_info"
                    /\ additional_info' = additional_info
                    /\ pc' = "raised"
                    /\ error' = analyze_text_error(text)
               ELSE /\ entry' = "generate_recommendation"
                    /\ additional_info' = _get_additional_info(text, answers)
                    /\ pc' = "analyze_text"
                    /\ error' = error
  /\ UNCHANGED << analysis, clarification, platform_rec, features_rec,
                  tech_stack_rec, cost_estimate, timeline_estimate,
                  confidence_score >>
  /\ UNCHANGED session_vars

\* lines 139-181: a follow-up other than done is appended to the input and
\* the engine runs again with the same additional_info; prev_recommendation
\* is the recommendation of the call before (lines 137 and 179)
Followup ==
  /\ pc = "returned"
  /\ entry = "generate_recommendation"
  /\ followups < MaxFollowups
  /\ \E followup \in FollowupChoices :
       /\ lower(strip(followup)) # lower(TextDone)
       /\ client_input' = followup_input(client_input, followup)
  /\ prev_recommendation' =
       [ input_analysis |-> analysis, platform_recommendation |-> platform_rec ]
  /\ followups' = followups + 1
  /\ pc' = "analyze_text"
  /\ UNCHANGED << entry, additional_info, analysis, clarification,
                  platform_rec, features_rec, tech_stack_rec, cost_estimate,
                  timeline_estimate, confidence_score, error,
                  engine_tech_stacks >>

\* Finish in a session: the user typed done (lines 145-153), or an exception
\* reached run() (lines 57-58)
CliNext ==
  \/ GetRecommendation
  \/ AnalyzeText
  \/ Clarification
  \/ RecommendPlatform
  \/ RecommendFeatures
  \/ RecommendTechStack
  \/ EstimateCost
  \/ EstimateTimeline
  \/ CalculateConfidence
  \/ Followup
  \/ Finish

CliSpec == Init /\ [][CliNext]_vars

\* ------------------------------------------------------------------------
\* Shorthands for the properties
\* ------------------------------------------------------------------------

\* a recommendation has been returned by generate_recommendation
Returned == pc = "returned" /\ entry = "generate_recommendation"

\* _recommend_platform has returned in the call in progress
PlatformDone ==
  /\ entry \in {"generate_recommendation", "_recommend_platform"}
  /\ pc \in {"features", "tech_stack", "cost", "timeline", "confidence", "returned"}

\* additional_info carries the three required fields
HasRequired == ~additional_info.none /\ RequiredKeys \subseteq additional_info.keys
\* ------------------------------------------------------------------------
\* Properties
\* ------------------------------------------------------------------------

\* the inputs of the platform decision in the call in progress
Portability == additional_info.portability_requirement

Access == additional_info.access_requirement

Notification == analysis.notification_requirement

\* C1: whenever _recommend_platform has returned for an additional_info
\* whose portability_requirement is "high", or for an analysis whose
\* notification_requirement is "major", the platform is "mobile" with
\* confidence 0.95, whatever the access requirement and the detected
\* platform preference are.
C1_Rule1Mobile ==
  (PlatformDone /\ (Portability = "high" \/ Notification = "major"))
    => (platform_rec.platform = "mobile" /\ platform_rec.confidence = 95)

\* C1 witness: a major-notification text wins over low portability, offline
\* access and a detected preference that is not mobile.
C1_Witness ==
  /\ PlatformDone
  /\ Notification = "major"
  /\ Portability = "low"
  /\ Access = "offline"
  /\ analysis.platform_preference[1] # "mobile"
  /\ platform_rec.platform = "mobile"

\* C2 (as stated): with portability_requirement "low" and access_requirement
\* "offline" the platform is "desktop" with confidence 0.90 for every input
\* text.
C2_LowOfflineDesktopAnyText ==
  (PlatformDone /\ Portability = "low" /\ Access = "offline")
    => (platform_rec.platform = "desktop" /\ platform_rec.confidence = 90)

\* C2 (amended): with portability_requirement "low" and access_requirement
\* "offline" the platform is "desktop" with confidence 0.90 for every input
\* text whose notification_requirement is not "major", and every detected
\* business type.
C2_LowOfflineDesktop ==
  (PlatformDone /\ Portability = "low" /\ Access = "offline" /\ Notification # "major")
    => (platform_rec.platform = "desktop" /\ platform_rec.confidence = 90)

\* C2 witness: low portability and offline access with a text that asks for
\* minor notifications gives desktop.
C2_Witness ==
  /\ PlatformDone
  /\ Portability = "low"
  /\ Access = "offline"
  /\ Notification = "minor"
  /\ platform_rec.platform = "desktop"
  /\ platform_rec.confidence = 90

\* C3: when rule 1 does not apply (portability_requirement is not "high" and
\* notification_requirement is not "major"), low portability or offline
\* access gives platform "desktop" with confidence 0.90.
C3_Rule2Desktop ==
  (/\ PlatformDone
   /\ Portability # "high"
   /\ Notification # "major"
   /\ (Portability = "low" \/ Access = "offline"))
    => (platform_rec.platform = "desktop" /\ platform_rec.confidence = 90)

\* C3 witness: offline access alone (medium portability) gives desktop.
C3_Witness ==
  /\ PlatformDone
  /\ Portability = "medium"
  /\ Access = "offline"
  /\ Notification # "major"
  /\ platform_rec.platform = "desktop"

\* no keyword of platform_indicators occurs in the text
NoPlatformKeyword(text) ==
  \A i \in 1..Len(platform_indicators_keys) :
    ~AnyKeyword(platform_indicators[platform_indicators_keys[i]], lower(text))

\* C4: when neither rule 1 nor rule 2 applies the platform is the detected
\* platform_preference with confidence 0.90; that preference is "web" when
\* the text has no platform keyword; and "I need an online store to sell my
\* products" with portability "medium" and access "online" gives "web".
C4_Rule3Preference ==
  /\ (/\ PlatformDone
      /\ Portability \notin {"high", "low"}
      /\ Notification # "major"
      /\ Access # "offline")
       => (/\ platform_rec.platform = analysis.platform_preference[1]
           /\ platform_rec.confidence = 90)
  /\ (pc = "clarification" /\ NoPlatformKeyword(client_input))
       => analysis.platform_preference[1] = "web"
  /\ (/\ PlatformDone
      /\ client_input = TextOnlineStore
      /\ Portability = "medium"
      /\ Access = "online")
       => platform_rec.platform = "web"

\* C4 witness: a text with a mobile keyword, medium portability and online
\* access: the recommendation is the detected preference, mobile.
C4_Witness ==
  /\ PlatformDone
  /\ Portability = "medium"
  /\ Access = "online"
  /\ Notification # "major"
  /\ analysis.platform_preference[1] = "mobile"
  /\ platform_rec.platform = "mobile"
  /\ platform_rec.confidence = 90

\* C5: for every text and every additional_info that carries the three
\* required fields, the recommended platform is mobile, web or desktop.
C5_PlatformInEnum ==
  (PlatformDone /\ HasRequired)
    => platform_rec.platform \in {"mobile", "web", "desktop"}

\* C5 witness: the last branch with a text that has no platform keyword, so
\* that the platform is the analyzer's default preference.
C5_Witness ==
  /\ PlatformDone
  /\ HasRequired
  /\ Portability = "medium"
  /\ Access = "online"
  /\ Notification # "major"
  /\ analysis.platform_preference = <<"web", 30>>
  /\ platform_rec.platform = "web"

\* additional_info is None, or a dict without one of the required keys
MissingRequired == ~HasRequired

\* C6: when additional_info is absent or lacks one of the three required
\* fields, generate_recommendation fails with MissingConfigurationError,
\* detected before any recommender has run, and never returns a
\* recommendation.
C6_MissingConfigurationError ==
  (entry = "generate_recommendation" /\ MissingRequired)
    => /\ pc # "returned"
       /\ (pc = "raised" => error = "MissingConfigurationError")

\* C7: generate_recommendation, _recommend_features and _recommend_tech_stack
\* called without additional_info (None) complete normally, and
\* _recommend_features returns a non-empty list for a text with detected
\* features.
C7_NoInfoCompletes ==
  (/\ entry \in {"generate_recommendation", "_recommend_features", "_recommend_tech_stack"}
   /\ additional_info.none
   /\ pc \in {"returned", "raised"})
    => /\ pc = "returned"
       /\ error = "none"
       /\ (entry = "_recommend_features" /\ analysis.detected_features # <<>>)
            => features_rec # <<>>

\* the business-type-to-platform table of lines 269-383, which follows the
\* return statements of _recommend_platform
platform_mapping ==
  [
    retail |-> "web", restaurant |-> "mobile", healthcare |-> "mobile",
    education |-> "web", logistics |-> "mobile", finance |-> "web",
    real_estate |-> "web", consulting |-> "desktop", fitness |-> "mobile",
    entertainment |-> "mobile", transportation |-> "mobile", beauty |-> "mobile",
    pet_care |-> "mobile", childcare |-> "mobile", event_planning |-> "mobile",
    coffee_shop |-> "mobile", delivery |-> "mobile", travel |-> "mobile",
    pharmaceutical |-> "mobile", home_services |-> "mobile", music |-> "mobile",
    photography |-> "mobile", gaming |-> "mobile", automotive |-> "mobile",
    agriculture |-> "mobile", carpooling |-> "mobile", bike_sharing |-> "mobile",
    parking |-> "mobile", package_locker |-> "mobile", karaoke |-> "mobile",
    running |-> "mobile", language_exchange |-> "mobile", retirement_planning |-> "mobile",
    property_investment |-> "mobile", symptom_checker |-> "mobile", sleep_tracking |-> "mobile",
    cryptocurrency |-> "mobile", grocery_delivery |-> "mobile", medication_interaction |-> "mobile",
    music_production |-> "mobile", fashion_styling |-> "mobile", makeup_tutorial |-> "mobile",
    property_inspection |-> "mobile", dental_appointment |-> "mobile", credit_card_management |-> "mobile",
    beauty_product_recommendation |-> "mobile", car_maintenance |-> "mobile", language_learning |-> "mobile",
    loyalty_program |-> "mobile", tax_preparation |-> "mobile", mental_health |-> "mobile",
    podcast |-> "mobile", yoga |-> "mobile", budgeting |-> "mobile",
    nutrition_tracking |-> "mobile", workout_tracking |-> "mobile", medication_reminder |-> "mobile",
    salon_appointment |-> "mobile", farm_management |-> "mobile", personal_shopping |-> "mobile",
    swimming |-> "mobile", fleet_management |-> "mobile", public_transportation |-> "mobile",
    ride_sharing |-> "mobile", food_delivery |-> "mobile", telemedicine |-> "mobile",
    gym_management |-> "mobile", restaurant_reservation |-> "mobile", coffee_shop_ordering |-> "mobile",
    daycare_management |-> "mobile", event_management |-> "mobile", travel_booking |-> "mobile",
    warehouse_management |-> "desktop", hospital_management |-> "desktop", banking_system |-> "desktop",
    construction_project |-> "desktop", consulting_crm |-> "desktop", insurance_claims |-> "desktop",
    accounting_software |-> "desktop", manufacturing_quality |-> "desktop", architecture_project |-> "desktop",
    consulting_time_tracking |-> "desktop", real_estate_property |-> "desktop", finance_trading |-> "desktop",
    medical_imaging |-> "desktop", laboratory_information |-> "desktop", academic_research |-> "desktop",
    library_management |-> "desktop", loan_management |-> "desktop", school_management |-> "desktop",
    warehouse_automation |-> "desktop", customs_clearance |-> "desktop", quality_control |-> "desktop",
    property_valuation |-> "desktop", student_assessment |-> "desktop", pharmacy_management |-> "desktop",
    supply_chain |-> "desktop", medical_billing |-> "desktop", plagiarism_detection |-> "desktop",
    video_editing |-> "web", virtual_classroom |-> "web", property_marketing |-> "web",
    research_collaboration |-> "web", streaming_platform |-> "web", news_platform |-> "web",
    online_learning |-> "web", ecommerce_website |-> "web", content_management |-> "web",
    online_exam |-> "web", student_information |-> "web", property_listing |-> "web",
    video_production |-> "web", academic_research_platform |-> "web"
  ]

\* lines 385-389: the platform chosen from the analysis alone
MappedPlatform(a) ==
  IF a.platform_preference[2] > 70
  THEN a.platform_preference[1]
  ELSE Get(platform_mapping, a.business_type[1], "web")

\* C8: without additional_info, _recommend_platform returns the platform of
\* the business-type mapping (retail -> web, restaurant -> mobile, unmapped
\* -> web), overridden by the detected preference only when its confidence
\* exceeds 0.7; "I need an online store" gives web and "I want a food
\* delivery app" gives mobile.
C8_NoInfoPlatformMapping ==
  (/\ entry = "_recommend_platform"
   /\ additional_info.none
   /\ pc \in {"returned", "raised"})
    => /\ pc = "returned"
       /\ platform_rec.platform = MappedPlatform(analysis)
       /\ (client_input = TextStoreShort => platform_rec.platform = "web")
       /\ (client_input = TextFoodApp => platform_rec.platform = "mobile")

\* the cost estimate of the call in progress has been computed
CostDone ==
  /\ entry = "generate_recommendation"
  /\ pc \in {"timeline", "confidence", "returned"}

\* C9: whenever additional_info supplies budget_constraint, the reported
\* total_cost (in cents) is at most the budget_constraint (in thousandths of
\* a dollar).
C9_TotalWithinBudget ==
  (CostDone /\ HasKey(additional_info, "budget_constraint"))
    => cost_estimate.total_cost * 10 <= additional_info.budget_constraint

\* the total of the cost formula with the multiplier of the caller-supplied
\* business type, in thousandths of a dollar
ClaimedCost ==
  (Get(base_cost, platform_rec.platform, 12000)
     + SumField(features_rec, "estimated_cost"))
  * Get(tech_stack_rec, "cost_factor", 10)
  * Get(business_multipliers, additional_info.business_type, 10)
  * 10

\* C10: without a budget cap, total_cost is (base cost of the platform + sum
\* of the features' estimated_cost) x the stack's cost_factor x the cost
\* multiplier of the caller-supplied business type, and it is positive.
C10_CostFormula ==
  (CostDone /\ ~HasKey(additional_info, "budget_constraint"))
    => /\ cost_estimate.total_cost = RoundDiv(ClaimedCost, 10)
       /\ cost_estimate.total_cost > 0

\* the timeline estimate of the call in progress has been computed
TimelineDone ==
  /\ entry = "generate_recommendation"
  /\ pc \in {"confidence", "returned"}

\* (base timeline of the platform + sum of the features' estimated_effort)
\* x the stack's timeline_factor, in hundredths of a week
ClaimedTimeline ==
  (Get(base_timeline, platform_rec.platform, 10)
     + SumField(features_rec, "estimated_effort"))
  * Get(tech_stack_rec, "timeline_factor", 10)
  * 10

\* C11: the timeline total is (base_timeline[platform] + sum of the
\* features' estimated_effort) x the stack's timeline_factor, with no
\* business multiplier, and whenever additional_info supplies
\* timeline_constraint the reported total_timeline (in tenths of a week) is
\* at most the constraint (in hundredths of a week).
C11_TimelineFormulaAndCap ==
  TimelineDone
    => /\ ~HasKey(additional_info, "timeline_constraint")
            => timeline_estimate.total_timeline = RoundDiv(ClaimedTimeline, 10)
       /\ HasKey(additional_info, "timeline_constraint")
            => timeline_estimate.total_timeline * 10
                 <= additional_info.timeline_constraint

\* C12: whatever categories the analysis detected, whatever the business
\* type and whatever requested_features holds (repeated ids, ids equal to a
\* detected or base id), the feature ids of feature_recommendations are
\* pairwise distinct.
C12_FeatureIdsDistinct ==
  \A i, j \in 1..Len(features_rec) :
    features_rec[i].feature = features_rec[j].feature => i = j

\* a returned list built from requested_features that repeat an id
C12_Witness ==
  /\ pc = "returned"
  /\ error = "none"
  /\ HasKey(additional_info, "requested_features")
  /\ Len(additional_info.requested_features) = 2
  /\ additional_info.requested_features[1] = additional_info.requested_features[2]
  /\ Len(features_rec) >= 4
  /\ features_rec[Len(features_rec)].feature = additional_info.requested_features[1]

\* needs_clarification and the questions of the call in progress are computed
ClarificationDone ==
  /\ entry = "generate_recommendation"
  /\ pc \in {"platform", "features", "tech_stack", "cost", "timeline",
             "confidence", "returned"}

QuestionTexts ==
  << "What type of business do you operate?",
     "What specific features or functionality do you need?",
     "Do you have a budget range in mind for this project?",
     "When do you need this system to be completed?",
     "Can you provide more details about your business requirements?" >>

\* whether question k applies to the analysis of the call in progress
QuestionApplies(k) ==
  CASE k = 1 -> analysis.business_type[1] = "unknown" \/ analysis.business_type[2] < 30
    [] k = 2 -> analysis.detected_features = <<>>
    [] k = 3 -> ~analysis.budget_indicators.budget_mentioned
    [] k = 4 -> ~analysis.timeline_indicators.timeline_mentioned
    [] k = 5 -> analysis.clarity_score < 40

\* the numbers of the applicable questions, ascending
ApplicableQuestions == SelectSeq(<<1, 2, 3, 4, 5>>, QuestionApplies)

\* C14: generate_clarification_questions returns at most 3 questions, the
\* first 3 applicable ones in the fixed order business type, features,
\* budget, timeline, details; when the business type is "unknown" the first
\* question is "What type of business do you operate?".
C14_FirstThreeQuestions ==
  ClarificationDone
    => LET questions == clarification.clarification_questions
       IN  /\ Len(questions) <= 3
           /\ Len(questions) = Min(3, Len(ApplicableQuestions))
           /\ \A n \in 1..Len(questions) :
                questions[n] = QuestionTexts[ApplicableQuestions[n]]
           /\ analysis.business_type[1] = "unknown"
                => /\ questions # <<>>
                   /\ questions[1] = "What type of business do you operate?"

\* more than three questions applied to a text of unknown business type
C14_Witness ==
  /\ ClarificationDone
  /\ analysis.business_type[1] = "unknown"
  /\ Len(ApplicableQuestions) > 3
  /\ Len(clarification.clarification_questions) = 3

\* clarity x 0.3 + business confidence x 0.3 + platform confidence x 0.2
\* + min(1.0, feature count / 10) x 0.2, in ten-thousandths
ClaimedConfidence ==
  30 * analysis.clarity_score
  + 30 * analysis.business_type[2]
  + 20 * platform_rec.confidence
  + 20 * (IF Len(features_rec) >= 10 THEN 100 ELSE 10 * Len(features_rec))

\* C15: the confidence_score of a returned recommendation is clarity x 0.3 +
\* business-type confidence x 0.3 + platform confidence x 0.2 +
\* min(1.0, feature count / 10) x 0.2 rounded to 2 decimals (so within half
\* a hundredth of the sum), and lies in [0, 1].
C15_ConfidenceFormula ==
  Returned
    => /\ 100 * confidence_score - ClaimedConfidence \in -50..50
       /\ confidence_score >= 0
       /\ confidence_score <= 100

\* a returned recommendation for a clear text with a rule-based platform
C15_Witness ==
  /\ Returned
  /\ analysis.clarity_score = 100
  /\ platform_rec.confidence = 95
  /\ Len(features_rec) >= 4
  /\ confidence_score >= 60

\* analyze_text has just returned in the call in progress
AnalysisDone ==
  /\ entry = "generate_recommendation"
  /\ pc = "clarification"

\* C16: the clarity score is min(1.0, (tokens that contain any business,
\* platform or feature keyword / total number of tokens) x 10 + 0.2), each
\* matching token counted once, and 0.0 for a text with no tokens; it lies
\* in [0, 1].
C16_ClarityEachTokenOnce ==
  AnalysisDone
    => LET text_lower == lower(client_input)
           tokens == TokenCount(text_lower)
       IN  /\ analysis.clarity_score =
                IF tokens = 0 THEN 0
                ELSE Min(100, RoundDiv(1000 * AnyTableMatches(text_lower), tokens) + 20)
           /\ analysis.clarity_score \in 0..100

\* C16 as the code has it: the clarity score is min(1.0, (tokens that
\* contain a business keyword + tokens that contain a platform keyword +
\* tokens that contain a feature keyword) / number of whitespace-separated
\* words x 10 + 0.2) rounded to 2 decimals, a token being counted once for
\* each of the three tables it matches, and 0.0 for a text with no words; it
\* lies in [0, 1].
C16_ClarityPerTable ==
  AnalysisDone
    => LET text_lower == lower(client_input)
           words == Cardinality(RunStarts(client_input, Whitespace))
           matches ==
             TokenMatches(business_keywords, business_keywords_keys, text_lower)
             + TokenMatches(platform_indicators, platform_indicators_keys, text_lower)
             + TokenMatches(feature_keywords, feature_keywords_keys, text_lower)
       IN  /\ analysis.clarity_score =
                IF words = 0 THEN 0
                ELSE Min(100, RoundDiv(1000 * matches, words) + 20)
           /\ analysis.clarity_score \in 0..100

\* a text whose one matching token is in two tables, and which would score
\* below 1.0 were the token counted once
C16_Witness ==
  /\ AnalysisDone
  /\ AnyTableMatches(lower(client_input)) = 1
  /\ TokenMatches(business_keywords, business_keywords_keys, lower(client_input)) = 1
  /\ TokenMatches(feature_keywords, feature_keywords_keys, lower(client_input)) = 1
  /\ Cardinality(RunStarts(client_input, Whitespace)) > 12
  /\ analysis.clarity_score = 100

\* C17: analyze_text never fails: for every input string, the empty string
\* and a text with thousands separators and cents such as "$1,000.50"
\* included, it returns an analysis record instead of raising.
C17_AnalyzeTextNeverFails ==
  [][pc = "analyze_text" => pc' # "raised"]_vars

\* score of every business type for the text of the call in progress
BusinessScores ==
  [n \in 1..Len(business_keywords_keys) |->
     KeywordCount(business_keywords[business_keywords_keys[n]], lower(client_input))]

\* the classified type has the highest score, and is the first of the table
\* (retail, restaurant, healthcare, education, logistics, finance,
\* real_estate, consulting) to have it
FirstHighest(best_type) ==
  \E n \in 1..Len(business_keywords_keys) :
    /\ business_keywords_keys[n] = best_type
    /\ \A k \in 1..Len(business_keywords_keys) : BusinessScores[k] <= BusinessScores[n]
    /\ \A k \in 1..(n - 1) : BusinessScores[k] < BusinessScores[n]

HighestScore ==
  CHOOSE c \in {BusinessScores[n] : n \in 1..Len(business_keywords_keys)} :
    \A n \in 1..Len(business_keywords_keys) : BusinessScores[n] <= c

\* C18: the business type is the category with the highest count of its
\* keywords occurring as substrings of the lower-cased text, the first in
\* table order on equal counts; the confidence is that count / 8 and is in
\* [0, 1]; when every count is zero the result is ("unknown", 0.0).
C18_ConfidenceIsCountOverEight ==
  AnalysisDone
    => IF HighestScore = 0
       THEN analysis.business_type = <<"unknown", 0>>
       ELSE /\ FirstHighest(analysis.business_type[1])
            /\ 8 * analysis.business_type[2] = 100 * HighestScore
            /\ analysis.business_type[2] \in 0..100

\* C18 as the code has it: as above, with the confidence being the count / 8
\* rounded to 2 decimals (0.12 for one keyword, 0.38 for three).
C18_ConfidenceRounded ==
  AnalysisDone
    => IF HighestScore = 0
       THEN analysis.business_type = <<"unknown", 0>>
       ELSE /\ FirstHighest(analysis.business_type[1])
            /\ analysis.business_type[2] = RoundDiv(100 * HighestScore, 8)
            /\ analysis.business_type[2] \in 0..100

\* two business types tie on one keyword each and the first one is returned
C18_Witness ==
  /\ AnalysisDone
  /\ HighestScore = 1
  /\ \E m, n \in 1..Len(business_keywords_keys) :
       m < n /\ BusinessScores[m] = 1 /\ BusinessScores[n] = 1
         /\ analysis.business_type[1] = business_keywords_keys[m]
  /\ analysis.business_type[2] = 12

\* the major-notification keywords that occur in the text of the call in
\* progress, and the minor ones
MajorOccurring ==
  {major_notification_keywords[n] : n \in
     {k \in 1..Len(major_notification_keywords) :
        Contains(major_notification_keywords[k], lower(client_input))}}

MinorOccurring ==
  {minor_notification_keywords[n] : n \in
     {k \in 1..Len(minor_notification_keywords) :
        Contains(minor_notification_keywords[k], lower(client_input))}}

\* C19: notification_requirement is "major" exactly when at least 2 distinct
\* major-notification keywords occur in the text; otherwise it is "minor"
\* when any minor keyword occurs (also with exactly one major keyword);
\* otherwise it is "none".
C19_NotificationLevels ==
  AnalysisDone
    => /\ Notification = "major" <=> Cardinality(MajorOccurring) >= 2
       /\ Notification = "minor"
            <=> Cardinality(MajorOccurring) < 2 /\ MinorOccurring # {}
       /\ Notification = "none"
            <=> Cardinality(MajorOccurring) < 2 /\ MinorOccurring = {}

\* exactly one major keyword together with a minor keyword gives "minor"
C19_Witness ==
  /\ AnalysisDone
  /\ Cardinality(MajorOccurring) = 1
  /\ MinorOccurring # {}
  /\ Notification = "minor"

\* C20: the platform recommendation carries the caller-supplied business
\* type (that of additional_info, not of the text analysis) under the field
\* business_type, where the later stages read it.
C20_PlatformCarriesBusinessType ==
  PlatformDone
    => /\ "business_type" \in DOMAIN platform_rec
       /\ platform_rec.business_type = additional_info.business_type

\* _recommend_tech_stack has returned in the call in progress
TechStackDone ==
  /\ entry \in {"generate_recommendation", "_recommend_tech_stack"}
  /\ pc \in {"cost", "timeline", "confidence", "returned"}

\* C21: when additional_info has tech_stack_preference, the stack id of the
\* tech-stack recommendation is that preference, in place of the default of
\* the platform and business type, whatever the recommended platform and
\* the business type.
C21_PreferenceOverrides ==
  (TechStackDone /\ HasKey(additional_info, "tech_stack_preference"))
    => tech_stack_rec.tech_stack = additional_info.tech_stack_preference

\* a returned recommendation whose stack is the preference and not the
\* default of its platform and business type
C21_Witness ==
  /\ Returned
  /\ HasKey(additional_info, "tech_stack_preference")
  /\ tech_stack_rec.tech_stack = additional_info.tech_stack_preference
  /\ tech_stack_rec.tech_stack
       # DefaultStack(platform_rec.platform, additional_info.business_type)

\* a direct call handed a platform without registered stacks, together
\* with an additional_info, has analysed its text and has been through
\* _recommend_tech_stack
SentinelCase ==
  /\ entry \in FromPlatformRec
  /\ ~additional_info.none
  /\ platform_rec.platform \notin DOMAIN tech_stacks
  /\ \/ pc \in {"cost", "timeline", "returned"}
     \/ pc = "raised" /\ error # "ValueError"

InvalidConstraint ==
  \/ HasKey(additional_info, "budget_constraint")
       /\ additional_info.budget_constraint <= 0
  \/ HasKey(additional_info, "timeline_constraint")
       /\ additional_info.timeline_constraint <= 0

\* C23: a budget_constraint or timeline_constraint that is supplied but is
\* not a positive number is rejected with InvalidConstraintError and no
\* recommendation is returned (for a text that analyze_text accepts); hence
\* every returned recommendation has total_cost >= 0 and
\* total_timeline >= 0.
C23_InvalidConstraintRejected ==
  /\ (entry = "generate_recommendation" /\ pc \in {"returned", "raised"}
        /\ HasRequired /\ InvalidConstraint /\ error # "ValueError")
       => pc = "raised" /\ error = "InvalidConstraintError"
  /\ Returned
       => /\ cost_estimate.total_cost >= 0
          /\ timeline_estimate.total_timeline >= 0

\* the stages of one generate_recommendation call, in the claimed order,
\* and the return of the aggregate
StageOrder ==
  << "analyze_text", "clarification", "platform", "features", "tech_stack",
     "cost", "timeline", "confidence", "returned" >>

Rank(st) == CHOOSE n \in 1..Len(StageOrder) : StageOrder[n] = st

\* C24: one call to generate_recommendation runs its stages in the order
\* text analysis, clarification, platform, features, tech stack, cost,
\* timeline, confidence, aggregate: every step of a call goes from a stage
\* to the next one (or raises), so no stage runs twice or before the stages
\* it consumes, and each stage's output is written in its own step only.
C24_StagesInOrder ==
  [][entry' = "generate_recommendation"
       => /\ pc = "idle" => pc' = "analyze_text"
          /\ pc # "idle"
               => /\ Rank(pc) < Len(StageOrder)
                  /\ pc' = "raised" \/ Rank(pc') = Rank(pc) + 1
          /\ analysis' # analysis => pc = "analyze_text"
          /\ clarification' # clarification => pc = "clarification"
          /\ platform_rec' # platform_rec => pc = "platform"
          /\ features_rec' # features_rec => pc = "features"
          /\ tech_stack_rec' # tech_stack_rec => pc = "tech_stack"
          /\ cost_estimate' # cost_estimate => pc = "cost"
          /\ timeline_estimate' # timeline_estimate => pc = "timeline"
          /\ confidence_score' # confidence_score => pc = "confidence"]_vars

\* a call has gone through every stage and returned its aggregate
C24_Witness ==
  /\ Returned
  /\ error = "none"
  /\ platform_rec # EmptyDict
  /\ features_rec # <<>>
  /\ tech_stack_rec # EmptyDict
  /\ cost_estimate # EmptyDict
  /\ timeline_estimate # EmptyDict
  /\ confidence_score > 0

\* _recommend_features has returned in the call in progress
FeaturesDone ==
  /\ entry \in {"generate_recommendation", "_recommend_features"}
  /\ pc \in {"tech_stack", "cost", "timeline", "confidence", "returned"}

\* the first 3 base features of the caller's business type, none for a
\* business type without a base list
FirstThreeBase ==
  LET business_type == additional_info.business_type
  IN  IF business_type \in DOMAIN business_features
      THEN SubSeq(business_features[business_type], 1, 3)
      ELSE <<>>

\* the requested feature ids, none when requested_features is absent
Requested ==
  IF HasKey(additional_info, "requested_features")
  THEN additional_info.requested_features
  ELSE <<>>

\* position of the first occurrence of id in the requested ids
FirstRequest(id) ==
  CHOOSE n \in 1..Len(Requested) :
    Requested[n] = id /\ \A m \in 1..(n - 1) : Requested[m] # id

C28_StackDataMatchesId ==
  (TechStackDone /\ tech_stack_rec.tech_stack # "Unknown")
    => LET stacks == tech_stacks[platform_rec.platform]
           id == tech_stack_rec.tech_stack
       IN  /\ id \in DOMAIN stacks
           /\ tech_stack_rec.name = stacks[id].name
           /\ tech_stack_rec.description = stacks[id].description
           /\ tech_stack_rec.pros = stacks[id].pros
           /\ tech_stack_rec.cons = stacks[id].cons
           /\ tech_stack_rec.cost_factor = stacks[id].cost_factor
           /\ tech_stack_rec.timeline_factor = stacks[id].timeline_factor

\* C27: whenever needs_clarification is true for an analysis,
\* generate_clarification_questions returns at least one question for it,
\* whatever the clarity score, business type and confidence, detected
\* features, budget_mentioned and timeline_mentioned.
C27_QuestionsWhenNeeded ==
  (entry = "needs_clarification" /\ pc = "returned")
    => (clarification.needs_clarification
          => clarification.clarification_questions # <<>>)


\* C26: the lookup tables are those of construction whatever calls were made
\* and whatever a caller did to a recommendation it was given, so the pros a
\* call returns are the ones the table was built with.
C26_TablesNeverChange ==
  /\ engine_tech_stacks = tech_stacks
  /\ (entry = "generate_recommendation" /\ pc = "cost"
        /\ "name" \in DOMAIN tech_stack_rec)
       => tech_stack_rec.pros =
            tech_stacks[platform_rec.platform]
                       [info_stack(platform_rec.platform,
                                   tech_stack_rec.tech_stack)].pros


\* a follow-up call of the session has passed the platform decision
FollowupPlatformDone ==
  /\ followups >= 1
  /\ entry = "generate_recommendation"
  /\ pc \in {"features", "tech_stack", "cost", "timeline", "confidence", "returned"}

\* the recommendation before the follow-up was mobile with rule 1 applying
PrevMobileByRule1 ==
  /\ prev_recommendation.platform_recommendation.platform = "mobile"
  /\ \/ additional_info.portability_requirement = "high"
     \/ prev_recommendation.input_analysis.notification_requirement = "major"

\* C29: in a session the additional_info stays as it was and each follow-up
\* is appended to the input; when the recommendation before a follow-up was
\* mobile with rule 1 applying, the recommendation after it is mobile, and a
\* notification requirement that was major stays major.
C29_MobileStaysMobile ==
  FollowupPlatformDone
    => /\ prev_recommendation.input_analysis.notification_requirement = "major"
            => analysis.notification_requirement = "major"
       /\ PrevMobileByRule1 => platform_rec.platform = "mobile"

\* a follow-up asked for a desktop; the input is still major and the
\* recommendation still mobile although the portability is not high
C29_Witness ==
  /\ FollowupPlatformDone
  /\ pc = "returned"
  /\ PrevMobileByRule1
  /\ additional_info.portability_requirement # "high"
  /\ analysis.platform_preference[1] = "desktop"
  /\ platform_rec.platform = "mobile"

\* C30: whenever the session has the engine running, for the first call and
\* for each follow-up, the additional_info holds portability_requirement in
\* {high, medium, low}, business_type and access_requirement in {online,
\* offline}, and the text is not empty.
C30_CliInfoComplete ==
  (entry = "generate_recommendation" /\ pc # "idle")
    => /\ HasRequired
       /\ additional_info.portability_requirement \in {"high", "medium", "low"}
       /\ additional_info.access_requirement \in {"online", "offline"}
       /\ strip(client_input) # <<>>

\* a follow-up call of a session whose business type the user typed in
C30_Witness ==
  /\ entry = "generate_recommendation"
  /\ pc = "returned"
  /\ followups = MaxFollowups
  /\ analysis.business_type[1] = "unknown"
  /\ HasRequired
  /\ "budget_constraint" \in additional_info.keys

====
